---- MODULE Spec2Model ----
(***************************************************************************)
(* Council runner: run ledger, artifact store, plan council graph,         *)
(* Phase 2 councils, approval command and the commit engine of             *)
(* agentic_mvp_factory, modelled from the Python sources.                  *)
(*                                                                         *)
(* Spec is the whole system.  SpecCouncil runs the councils and the        *)
(* approval command from an empty ledger; SpecPhase2 runs the Phase 2      *)
(* councils on a ledger whose plan run is approved; SpecCommit runs the    *)
(* approval command and two concurrent commit attempts on a ledger of plan *)
(* runs whose councils have returned.  The ledgers SpecPhase2 and          *)
(* SpecCommit start from are reachable in SpecCouncil.                     *)
(***************************************************************************)
EXTENDS Naturals, Integers, Sequences, FiniteSets, TLC

VARIABLES
    runs,        \* runs table: sequence of rows, the run id is the index
    artifacts,   \* artifacts table, per run id, ordered by created_at
    approvals,   \* approvals table: per run id, its decisions by created_at
    council,     \* the council invocation in progress (its local state)
    issued,      \* participant calls submitted so far, per run and role
    outcome,     \* how the last finished entry point ended
    fs,          \* stable files of the target repository
    snaps,       \* files under versions/<timestamp>_<run-id>/
    lockFile,    \* TRUE iff <target>/.factory-lock exists
    cp,          \* the commit attempts (one record per committing process)
    tree,        \* the target directory as git sees it
    clobbered,   \* stable paths that were rewritten while they existed
    registry_doc, \* the factory's docs/ARTIFACT_REGISTRY.md
    validated    \* runs for which validate_run_outputs returned is_valid

vars == <<runs, artifacts, approvals, council, issued, outcome,
          fs, snaps, lockFile, cp, tree, clobbered, registry_doc, validated>>

repoVars == <<fs, snaps, lockFile, tree, clobbered, registry_doc>>

----------------------------------------------------------------------------
(* Bounds *)

MaxRuns == 2
MaxModels == 2
MaxClock == 1
MaxPlans == 1
MaxInputs == 2
MaxLines == 3

----------------------------------------------------------------------------
(* Vocabulary *)

Phase2Types == {"spec", "invariants", "tracker", "prompts", "cursor_rules"}

ApprovedStatuses == {"ready_to_commit", "completed"}

NoRun == 0

RunIds == 1..Len(runs)

Participants == 1..MaxModels

\* Texts are abstracted to the features the validators look at.
PlainText == [labels |-> {}, fenced |-> "none"]
GoodText == [labels |-> {"SYNTHESIS", "DECISION_PACKET"}, fenced |-> "none"]
NoDecisionText == [labels |-> {"SYNTHESIS"}, fenced |-> "none"]

ChairTexts == {GoodText, NoDecisionText}

EditedTexts == {NoDecisionText}

\* The project_slug argument of the councils and of commit_pack.
DefaultProject == "demo"
ProjectInputs == {"demo", "other"}

\* Packets the plan councils were started on.
PacketTexts == {PlainText, GoodText}

\* Feedback typed at the --reject prompt, as its characters.
Feedbacks == {<<"f">>}
FeedbackInputs == {<<>>, <<" ", "\n">>, <<" ", "f", "\n">>}

\* The packet file of "council run plan" exists; it may be empty.
PacketInputs == {"empty", "text"}

\* Artifact kinds the store is asked for; within a kind the rows keep their
\* created_at order, which is all get_artifacts(run_id, kind) exposes.
ArtifactKinds ==
    {"packet", "draft", "critique", "error", "synthesis", "decision_packet",
     "plan", "output", "synthesis_edited", "commit_log", "commit_manifest"}

NoArtifacts == [kind \in ArtifactKinds |-> <<>>]

----------------------------------------------------------------------------
(* Run ledger and artifact store (repo.py) *)

create_run(project_slug, task_type, parent) ==
    Append(runs, [project |-> project_slug, task_type |-> task_type,
                  status |-> "created", parent |-> parent])

update_run_status(rs, run_id, status) ==
    IF run_id \in 1..Len(rs)
    THEN [rs EXCEPT ![run_id].status = status]
    ELSE rs

write_artifact_replacing(arts, run_id, kind, content) ==
    [arts EXCEPT ![run_id][kind] = <<content>>]

write_artifact(arts, run_id, kind, content) ==
    [arts EXCEPT ![run_id][kind] = Append(@, content)]

get_artifacts(arts, run_id, kind) == arts[run_id][kind]

ZeroCalls == [draft |-> 0, critique |-> 0, chair |-> 0]

IdleCouncil ==
    [task |-> "none", run |-> NoRun, pc |-> "idle", models |-> {},
     pending |-> {}, draft_ids |-> 0, failed |-> <<>>,
     packet_path |-> "missing", packet_content |-> "",
     checked |-> {}, upstream |-> {}]

\* outcome holds the entry point that finished in the last step, if any.
Finished(op, run_id, result, reason) ==
    [op |-> op, run |-> run_id, result |-> result, reason |-> reason, info |-> {}]

NoEvent == Finished("none", NoRun, "none", "")

InSeq(x, s) == \E i \in 1..Len(s) : s[i] = x

SeqToSet(s) == {s[i] : i \in 1..Len(s)}

\* if model not in failed_models: failed_models.append(model)
append_failed(failed_models, model) ==
    IF InSeq(model, failed_models) THEN failed_models ELSE Append(failed_models, model)

----------------------------------------------------------------------------
(* Plan council: graph.py.  build_council_graph chains the five nodes with *)
(* unconditional edges, so every node runs on every invocation.            *)

\* run_council: create the run and enter the graph at load_packet.
run_council(project_slug, n, packet) ==
    /\ council.pc = "idle"
    /\ Len(runs) < MaxRuns
    /\ runs' = create_run(project_slug, "plan", NoRun)
    /\ council' = [IdleCouncil EXCEPT !.task = "plan", !.run = Len(runs) + 1,
                      !.pc = "load_packet", !.models = 1..n,
                      !.packet_path = packet]
    /\ UNCHANGED <<artifacts, approvals, validated, issued, cp>>
    /\ outcome' = NoEvent
    /\ UNCHANGED repoVars

load_packet ==
    /\ council.task = "plan"
    /\ council.pc = "load_packet"
    /\ IF council.packet_path = "missing"
       THEN /\ council' = [council EXCEPT !.pc = "draft_generate"]
            /\ UNCHANGED artifacts
       ELSE /\ artifacts' = write_artifact(artifacts, council.run, "packet", PlainText)
            /\ council' = [council EXCEPT
                              !.packet_content = IF council.packet_path = "empty" THEN "" ELSE "text",
                              !.pc = "draft_generate"]
    /\ UNCHANGED <<runs, approvals, validated, issued, cp>>
    /\ outcome' = NoEvent
    /\ UNCHANGED repoVars

\* draft_generate, up to the submission of the draft calls.
draft_generate ==
    /\ council.task = "plan"
    /\ council.pc = "draft_generate"
    /\ IF council.models = {} \/ council.packet_content = ""
       THEN /\ council' = [council EXCEPT !.pc = "critique_generate"]
            /\ UNCHANGED <<runs, issued>>
       ELSE /\ runs' = update_run_status(runs, council.run, "drafting")
            /\ issued' = [issued EXCEPT ![council.run].draft = @ + Cardinality(council.models)]
            /\ council' = [council EXCEPT !.pending = council.models, !.draft_ids = 0,
                              !.pc = "draft_wait"]
    /\ UNCHANGED <<artifacts, approvals, validated, cp>>
    /\ outcome' = NoEvent
    /\ UNCHANGED repoVars

\* _generate_single_draft for one participant, collected by as_completed.
_generate_single_draft(m, ok) ==
    /\ council.task = "plan"
    /\ council.pc = "draft_wait"
    /\ m \in council.pending
    /\ IF ok
       THEN /\ artifacts' = write_artifact(artifacts, council.run, "draft", PlainText)
            /\ council' = [council EXCEPT !.pending = @ \ {m}, !.draft_ids = @ + 1]
       ELSE /\ artifacts' = write_artifact(artifacts, council.run, "error", PlainText)
            /\ council' = [council EXCEPT !.pending = @ \ {m},
                                          !.failed = Append(@, m)]
    /\ UNCHANGED <<runs, approvals, validated, issued, cp>>
    /\ outcome' = NoEvent
    /\ UNCHANGED repoVars

draft_gate_early ==
    /\ council.task = "plan"
    /\ council.pc = "draft_wait"
    /\ Cardinality(council.pending) <= 1
    /\ IF council.draft_ids < 2
       THEN /\ runs' = update_run_status(runs, council.run, "failed")
            /\ council' = [council EXCEPT !.pc = "critique_generate"]
       ELSE /\ council' = [council EXCEPT !.pc = "critique_generate"]
            /\ UNCHANGED runs
    /\ UNCHANGED <<artifacts, approvals, validated, issued, cp>>
    /\ outcome' = NoEvent
    /\ UNCHANGED repoVars

\* draft_generate after the join: the draft gate.
draft_gate ==
    /\ council.task = "plan"
    /\ council.pc = "draft_wait"
    /\ council.pending = {}
    /\ IF council.draft_ids < 2
       THEN /\ runs' = update_run_status(runs, council.run, "failed")
            /\ council' = [council EXCEPT !.pc = "critique_generate"]
       ELSE /\ council' = [council EXCEPT !.pc = "critique_generate"]
            /\ UNCHANGED runs
    /\ UNCHANGED <<artifacts, approvals, validated, issued, cp>>
    /\ outcome' = NoEvent
    /\ UNCHANGED repoVars

\* critique_generate, up to the submission of the critique calls.
critique_generate ==
    /\ council.task = "plan"
    /\ council.pc = "critique_generate"
    /\ IF council.models = {}
       THEN /\ council' = [council EXCEPT !.pc = "chair_synthesize"]
            /\ UNCHANGED <<runs, issued>>
       ELSE /\ runs' = update_run_status(runs, council.run, "critiquing")
            /\ IF get_artifacts(artifacts, council.run, "draft") = <<>>
               THEN /\ council' = [council EXCEPT !.pc = "chair_synthesize"]
                    /\ UNCHANGED issued
               ELSE /\ issued' = [issued EXCEPT ![council.run].critique = @ + Cardinality(council.models)]
                    /\ council' = [council EXCEPT !.pending = council.models, !.pc = "critique_wait"]
    /\ UNCHANGED <<artifacts, approvals, validated, cp>>
    /\ outcome' = NoEvent
    /\ UNCHANGED repoVars

_generate_single_critique_no_test(m, ok) ==
    /\ council.task = "plan"
    /\ council.pc = "critique_wait"
    /\ m \in council.pending
    /\ IF ok
       THEN /\ artifacts' = write_artifact(artifacts, council.run, "critique", PlainText)
            /\ council' = [council EXCEPT !.pending = @ \ {m}]
       ELSE /\ artifacts' = write_artifact(artifacts, council.run, "error", PlainText)
            /\ council' = [council EXCEPT !.pending = @ \ {m},
                                          !.failed = Append(@, m)]
    /\ UNCHANGED <<runs, approvals, validated, issued, cp>>
    /\ outcome' = NoEvent
    /\ UNCHANGED repoVars

\* _generate_single_critique for one participant.
_generate_single_critique(m, ok) ==
    /\ council.task = "plan"
    /\ council.pc = "critique_wait"
    /\ m \in council.pending
    /\ IF ok
       THEN /\ artifacts' = write_artifact(artifacts, council.run, "critique", PlainText)
            /\ council' = [council EXCEPT !.pending = @ \ {m}]
       ELSE /\ artifacts' = write_artifact(artifacts, council.run, "error", PlainText)
            /\ council' = [council EXCEPT !.pending = @ \ {m},
                                          !.failed = append_failed(@, m)]
    /\ UNCHANGED <<runs, approvals, validated, issued, cp>>
    /\ outcome' = NoEvent
    /\ UNCHANGED repoVars

critique_join ==
    /\ council.task = "plan"
    /\ council.pc = "critique_wait"
    /\ council.pending = {}
    /\ council' = [council EXCEPT !.pc = "chair_synthesize"]
    /\ UNCHANGED <<runs, artifacts, approvals, validated, issued, cp>>
    /\ outcome' = NoEvent
    /\ UNCHANGED repoVars

\* "DECISION_PACKET" + content.split("DECISION_PACKET")[-1], else the whole text.
DecisionPart(text) ==
    IF "DECISION_PACKET" \in text.labels
    THEN [text EXCEPT !.labels = {"DECISION_PACKET"}]
    ELSE text

\* chair_synthesize, up to the chair call.
chair_synthesize ==
    /\ council.task = "plan"
    /\ council.pc = "chair_synthesize"
    /\ runs' = update_run_status(runs, council.run, "synthesizing")
    /\ issued' = [issued EXCEPT ![council.run].chair = @ + 1]
    /\ council' = [council EXCEPT !.pc = "chair_wait"]
    /\ UNCHANGED <<artifacts, approvals, validated, cp>>
    /\ outcome' = NoEvent
    /\ UNCHANGED repoVars

\* chair_synthesize, from the chair's answer (or exception) on.
chair_result(ok, text) ==
    /\ council.task = "plan"
    /\ council.pc = "chair_wait"
    /\ IF ok
       THEN /\ artifacts' =
                 write_artifact(
                   write_artifact(
                     write_artifact(artifacts, council.run, "synthesis", text),
                     council.run, "decision_packet", DecisionPart(text)),
                   council.run, "plan", text)
            /\ council' = [council EXCEPT !.pc = "pause_for_approval"]
            /\ UNCHANGED runs
       ELSE /\ artifacts' = write_artifact(artifacts, council.run, "error", PlainText)
            /\ runs' = update_run_status(runs, council.run, "failed")
            /\ council' = [council EXCEPT !.pc = "pause_for_approval"]
    /\ UNCHANGED <<approvals, validated, issued, cp>>
    /\ outcome' = NoEvent
    /\ UNCHANGED repoVars

pause_for_approval_without_status ==
    /\ council.task = "plan"
    /\ council.pc = "pause_for_approval"
    /\ outcome' = [op |-> "run_council", run |-> council.run, result |-> "returned",
                   reason |-> "", info |-> {}, failed |-> council.failed]
    /\ council' = IdleCouncil
    /\ UNCHANGED <<runs, artifacts, approvals, validated, issued, cp>>
    /\ UNCHANGED repoVars

\* pause_for_approval, then END: run_council returns.
pause_for_approval ==
    /\ council.task = "plan"
    /\ council.pc = "pause_for_approval"
    /\ runs' = update_run_status(runs, council.run, "waiting_for_approval")
    /\ outcome' = [op |-> "run_council", run |-> council.run, result |-> "returned",
                   reason |-> "", info |-> {}, failed |-> council.failed]
    /\ council' = IdleCouncil
    /\ UNCHANGED <<artifacts, approvals, validated, issued, cp>>
    /\ UNCHANGED repoVars

----------------------------------------------------------------------------
(* Dependency law (artifact_deps.py).  An input name is the sequence of    *)
(* the pieces the patterns can match, so that "pattern in input_name" is    *)
(* the occurrence of the pattern's pieces in the name.                     *)

PLAN_ARTIFACT == <<"plan">>
SPEC == <<"spec">>
INVARIANTS == <<"invariants">>
TRACKER == <<"tracker">>

ALLOWED_INPUTS_BY_TASK_TYPE ==
    [spec |-> {PLAN_ARTIFACT},
     invariants |-> {SPEC},
     tracker |-> {SPEC, INVARIANTS},
     prompts |-> {SPEC, INVARIANTS, TRACKER},
     cursor_rules |-> {SPEC, INVARIANTS}]

FORBIDDEN_INPUT_PATTERNS ==
    {<<"phase_0/">>, <<"context_pack">>, <<".cursor/rules/">>,
     <<"prompts/step_template">>, <<"prompts/review_template">>,
     <<"prompts/patch_template">>, <<"prompts/chair_synthesis">>}

\* "spec" has no entry in the source table.
TASK_SPECIFIC_FORBIDDEN ==
    [spec |-> {},
     invariants |-> {<<"plan">>},
     tracker |-> {<<"plan">>, <<"phase_minus_1/">>},
     prompts |-> {<<"plan">>, <<"phase_minus_1/">>},
     cursor_rules |-> {<<"plan">>, <<"tracker">>, <<"phase_minus_1/">>}]

\* pattern in input_name
PatternIn(pattern, input_name) ==
    \E i \in 1..Len(input_name) :
        /\ i + Len(pattern) - 1 <= Len(input_name)
        /\ SubSeq(input_name, i, i + Len(pattern) - 1) = pattern

_is_forbidden_pattern(input_name, task_type) ==
    \/ \E pattern \in FORBIDDEN_INPUT_PATTERNS : PatternIn(pattern, input_name)
    \/ \E pattern \in TASK_SPECIFIC_FORBIDDEN[task_type] :
          PatternIn(pattern, input_name) \/ input_name = pattern

Violation(tag, input_name) == [tag |-> tag, name |-> input_name]

CheckInput_forbidden_only(task_type, input_name) ==
    IF _is_forbidden_pattern(input_name, task_type)
    THEN <<Violation("FORBIDDEN", input_name)>>
    ELSE <<>>

CheckInput_no_continue(task_type, input_name) ==
    (IF _is_forbidden_pattern(input_name, task_type)
     THEN <<Violation("FORBIDDEN", input_name)>> ELSE <<>>)
    \o (IF input_name \notin ALLOWED_INPUTS_BY_TASK_TYPE[task_type]
        THEN <<Violation("NOT ALLOWED", input_name)>> ELSE <<>>)

\* The body of the loop over inputs.items(): what one input appends to
\* violations.
CheckInput(task_type, input_name) ==
    IF _is_forbidden_pattern(input_name, task_type)
    THEN <<Violation("FORBIDDEN", input_name)>>
    ELSE IF input_name \notin ALLOWED_INPUTS_BY_TASK_TYPE[task_type]
         THEN <<Violation("NOT ALLOWED", input_name)>>
         ELSE <<>>

\* The violations list of validate_allowed_inputs for the keys of inputs in
\* their dict order; the call raises iff the list is not empty.
RECURSIVE validate_allowed_inputs(_, _)
validate_allowed_inputs(task_type, inputs) ==
    IF inputs = <<>> THEN <<>>
    ELSE CheckInput(task_type, Head(inputs))
            \o validate_allowed_inputs(task_type, Tail(inputs))

\* A call of validate_allowed_inputs: it returns None, or raises one
\* ValueError that reports len(violations) and lists the violations.
validate_call(task_type, inputs) ==
    /\ council.pc = "idle"
    /\ LET violations == validate_allowed_inputs(task_type, inputs)
       IN outcome' = [op |-> "validate_allowed_inputs", run |-> NoRun,
                      result |-> IF violations # <<>> THEN "raised" ELSE "returned",
                      reason |-> "", info |-> {},
                      task |-> task_type, inputs |-> inputs,
                      count |-> Len(violations), listed |-> violations]
    /\ UNCHANGED <<runs, artifacts, approvals, validated, council, issued, cp>>
    /\ UNCHANGED repoVars

\* Input names a caller may pass.
InputNames ==
    {PLAN_ARTIFACT, SPEC, INVARIANTS, TRACKER,
     <<"phase_0/", "context_pack", "_lite.md">>,
     <<"phase_minus_1/", "build_candidate.yaml">>,
     <<"master_", "plan", "_v2">>}

\* The key lists of the dicts a caller may pass: distinct names, in order.
InputMappings ==
    UNION {{inputs \in [1..n -> InputNames] :
               \A i, j \in 1..n : i # j => inputs[i] # inputs[j]} : n \in 0..MaxInputs}

----------------------------------------------------------------------------
(* Phase 2 councils: phase2/*_council.py.  The five entry points share one *)
(* control flow and differ in their preflight and in the chair gate.       *)

MaxOf(S) == CHOOSE x \in S : \A y \in S : y <= x

get_oldest_approved_run_by_task_type(task_type, parent_run_id) ==
    LET hits == {r \in RunIds : /\ runs[r].task_type = task_type
                                /\ runs[r].parent = parent_run_id
                                /\ runs[r].status \in ApprovedStatuses}
    IN IF hits = {} THEN NoRun ELSE CHOOSE r \in hits : \A q \in hits : r <= q

get_latest_approved_run_by_task_type(task_type, parent_run_id) ==
    LET hits == {r \in RunIds : /\ runs[r].task_type = task_type
                                /\ runs[r].parent = parent_run_id
                                /\ runs[r].status \in ApprovedStatuses}
    IN IF hits = {} THEN NoRun ELSE MaxOf(hits)

\* Councils that read the plan artifact of the plan run.
ReadsPlan == {"spec", "invariants"}

\* Upstream runs looked up by each council.
UpstreamTypes ==
    [spec |-> {},
     invariants |-> {},
     tracker |-> {"spec", "invariants"},
     prompts |-> {"spec", "invariants", "tracker"},
     cursor_rules |-> {"spec", "invariants"}]

\* run_tracker_council calls the lookup as (plan_run_id, "spec"): the run id
\* is matched against task_type and the type name against parent_run_id, so
\* no row can match.
UpstreamRun(task_type, up, plan_run_id) ==
    IF task_type = "tracker"
    THEN NoRun
    ELSE get_latest_approved_run_by_task_type(up, plan_run_id)

\* Names handed to validate_allowed_inputs (run_invariants_council hands none).
DeclaredInputs ==
    [spec |-> <<PLAN_ARTIFACT>>,
     invariants |-> <<>>,
     tracker |-> <<SPEC, INVARIANTS>>,
     prompts |-> <<SPEC, INVARIANTS, TRACKER>>,
     cursor_rules |-> <<SPEC, INVARIANTS>>]

\* The upstream artifacts whose content a council hands to its participants.
UpstreamContent ==
    [spec |-> {PLAN_ARTIFACT},
     invariants |-> {PLAN_ARTIFACT},
     tracker |-> {SPEC, INVARIANTS},
     prompts |-> {SPEC, INVARIANTS, TRACKER},
     cursor_rules |-> {SPEC, INVARIANTS}]

Preflight(task_type, plan_run_id, n) ==
    IF n < 2 THEN "too_few_models"
    ELSE IF plan_run_id \notin RunIds THEN "plan_not_found"
    ELSE IF runs[plan_run_id].status \notin ApprovedStatuses THEN "plan_not_approved"
    ELSE IF /\ task_type \in ReadsPlan
            /\ get_artifacts(artifacts, plan_run_id, "plan") = <<>>
            /\ get_artifacts(artifacts, plan_run_id, "synthesis") = <<>>
         THEN "no_plan_artifact"
    ELSE IF \E up \in UpstreamTypes[task_type] :
                UpstreamRun(task_type, up, plan_run_id) = NoRun
         THEN "no_approved_upstream"
    ELSE IF \E up \in UpstreamTypes[task_type] :
                get_artifacts(artifacts, UpstreamRun(task_type, up, plan_run_id), "output") = <<>>
         THEN "no_upstream_output"
    ELSE IF validate_allowed_inputs(task_type, DeclaredInputs[task_type]) # <<>>
         THEN "dependency_violation"
    ELSE "ok"

\* run_<task>_council up to the submission of the draft calls.  A failed
\* preflight raises before any run is created: the call changes nothing.
run_phase2_council(task_type, plan_run_id, n) ==
    /\ council.pc = "idle"
    /\ Preflight(task_type, plan_run_id, n) = "ok"
    /\ Len(runs) + 1 \in DOMAIN artifacts
    /\ LET new == Len(runs) + 1
       IN /\ runs' = update_run_status(create_run(DefaultProject, task_type, plan_run_id), new, "drafting")
          /\ artifacts' = write_artifact(artifacts, new, "packet", PlainText)
          /\ issued' = [issued EXCEPT ![new].draft = @ + n]
          /\ council' = [IdleCouncil EXCEPT !.task = task_type, !.run = new,
                            !.pc = "draft_wait", !.models = 1..n,
                            !.pending = 1..n,
                            !.checked = SeqToSet(DeclaredInputs[task_type]),
                            !.upstream = UpstreamContent[task_type]]
    /\ outcome' = NoEvent
    /\ UNCHANGED <<approvals, validated, cp>>
    /\ UNCHANGED repoVars

\* run_<task>_council when a preflight test fails: the ValueError reaches the
\* caller before create_run.
run_phase2_council_raises(task_type, plan_run_id, n) ==
    /\ council.pc = "idle"
    /\ Preflight(task_type, plan_run_id, n) # "ok"
    /\ outcome' = Finished(task_type, NoRun, "raised",
                           Preflight(task_type, plan_run_id, n))
    /\ UNCHANGED <<runs, artifacts, approvals, validated, council, issued, cp>>
    /\ UNCHANGED repoVars

\* _generate_<task>_draft for one participant.
_generate_phase2_draft(m, ok) ==
    /\ council.task \in Phase2Types
    /\ council.pc = "draft_wait"
    /\ m \in council.pending
    /\ IF ok
       THEN /\ artifacts' = write_artifact(artifacts, council.run, "draft", PlainText)
            /\ council' = [council EXCEPT !.pending = @ \ {m}, !.draft_ids = @ + 1]
       ELSE /\ artifacts' = write_artifact(artifacts, council.run, "error", PlainText)
            /\ council' = [council EXCEPT !.pending = @ \ {m},
                                          !.failed = Append(@, m)]
    /\ UNCHANGED <<runs, approvals, validated, issued, cp>>
    /\ outcome' = NoEvent
    /\ UNCHANGED repoVars

phase2_gate_closed_lenient(draft_ids) == draft_ids < 1

\* if len(draft_ids) < 2: the gate of the Phase 2 councils.
phase2_gate_closed(draft_ids) == draft_ids < 2

\* The draft gate and, when it passes, the submission of the critique calls.
phase2_draft_gate ==
    /\ council.task \in Phase2Types
    /\ council.pc = "draft_wait"
    /\ council.pending = {}
    /\ IF phase2_gate_closed(council.draft_ids)
       THEN /\ runs' = update_run_status(runs, council.run, "failed")
            /\ outcome' = Finished(council.task, council.run, "raised", "draft_gate")
            /\ council' = IdleCouncil
            /\ UNCHANGED issued
       ELSE /\ runs' = update_run_status(runs, council.run, "critiquing")
            /\ issued' = [issued EXCEPT ![council.run].critique = @ + Cardinality(council.models)]
            /\ council' = [council EXCEPT !.pending = council.models, !.pc = "critique_wait"]
            /\ outcome' = NoEvent
    /\ UNCHANGED <<artifacts, approvals, validated, cp>>
    /\ UNCHANGED repoVars

_generate_phase2_critique_failing_run(m, ok) ==
    /\ council.task \in Phase2Types
    /\ council.pc = "critique_wait"
    /\ m \in council.pending
    /\ IF ok
       THEN /\ artifacts' = write_artifact(artifacts, council.run, "critique", PlainText)
            /\ UNCHANGED runs
       ELSE /\ artifacts' = write_artifact(artifacts, council.run, "error", PlainText)
            /\ runs' = update_run_status(runs, council.run, "failed")
    /\ council' = [council EXCEPT !.pending = @ \ {m},
                                  !.failed = IF ok THEN @ ELSE append_failed(@, m)]
    /\ UNCHANGED <<approvals, validated, issued, cp>>
    /\ outcome' = NoEvent
    /\ UNCHANGED repoVars

\* _generate_<task>_critique for one participant.
_generate_phase2_critique(m, ok) ==
    /\ council.task \in Phase2Types
    /\ council.pc = "critique_wait"
    /\ m \in council.pending
    /\ IF ok
       THEN /\ artifacts' = write_artifact(artifacts, council.run, "critique", PlainText)
            /\ council' = [council EXCEPT !.pending = @ \ {m}]
       ELSE /\ artifacts' = write_artifact(artifacts, council.run, "error", PlainText)
            /\ council' = [council EXCEPT !.pending = @ \ {m},
                                          !.failed = append_failed(@, m)]
    /\ UNCHANGED <<runs, approvals, validated, issued, cp>>
    /\ outcome' = NoEvent
    /\ UNCHANGED repoVars

\* After the critique join: status "synthesizing" and the chair call.
phase2_chair_call ==
    /\ council.task \in Phase2Types
    /\ council.pc = "critique_wait"
    /\ council.pending = {}
    /\ runs' = update_run_status(runs, council.run, "synthesizing")
    /\ issued' = [issued EXCEPT ![council.run].chair = @ + 1]
    /\ council' = [council EXCEPT !.pc = "chair_wait"]
    /\ UNCHANGED <<artifacts, approvals, validated, cp>>
    /\ outcome' = NoEvent
    /\ UNCHANGED repoVars

\* Chair texts of the Phase 2 councils, by what the gates look at: whether
\* the text parses as YAML, its top-level keys (for invariants: the required
\* header and mention), whether it is wrapped in ``` fences, and its size.
EnvelopeKeys ==
    [spec |-> {"schema_version", "project", "updated_at"},
     tracker |-> {"schema_version", "steps"},
     prompts |-> {"schema_version", "outputs"},
     cursor_rules |-> {"schema_version", "outputs"},
     invariants |-> {"# Invariants (V0)", "invariants/invariants.md"}]

Envelope(yaml, keys, wrapped, size) ==
    [labels |-> {}, fenced |-> "none",
     yaml |-> yaml, keys |-> keys, wrapped |-> wrapped, size |-> size]

\* What the chair call produced: a complete envelope inside fences, valid
\* YAML that lacks the task's keys, a long text that is no YAML at all, or
\* an exception.
ChairAnswers == {"envelope", "incomplete", "garbage", "exception"}

ChairText(task_type, answer) ==
    IF answer = "envelope" THEN Envelope(TRUE, EnvelopeKeys[task_type], TRUE, "short")
    ELSE IF answer = "incomplete" THEN Envelope(TRUE, {"schema_version"}, FALSE, "short")
    ELSE Envelope(FALSE, {}, FALSE, "long")

\* Removal of the opening and closing fence lines.
StripFences(text) == [text EXCEPT !.wrapped = FALSE]

\* content[:2000] (content[:1000] in the invariants council).
FirstChars(text) == [text EXCEPT !.size = IF @ = "long" THEN "cut" ELSE @]

\* The error artifact of a failed gate: the reason and "Raw output (first
\* 2000 chars)" of the cleaned text.
GateError(content) ==
    [labels |-> {}, fenced |-> "none", raw_output |-> FirstChars(content)]

envelope_gate_open(task_type, content) == TRUE

\* The envelope gate of a task type, on the cleaned text.
envelope_gate(task_type, content) ==
    /\ task_type # "invariants" => content.yaml
    /\ EnvelopeKeys[task_type] \subseteq content.keys

\* The chair outputs of the prompts and cursor_rules councils, as their
\* envelope gates read them: where the ``` fence lines stand, whether the
\* body is YAML, what it parses to, its schema_version, and its outputs.
\* Key k is the k-th required key of the task type; the last key is one
\* the task type does not require.
REQUIRED_OUTPUT_KEYS == [prompts |-> 1..4, cursor_rules |-> 1..2]

OutputKeys(task_type) ==
    REQUIRED_OUTPUT_KEYS[task_type] \cup {Cardinality(REQUIRED_OUTPUT_KEYS[task_type]) + 1}

\* "wrapped": first and last line are fences; "unclosed": only the first
\* line is one; "inner": fence lines stand after a line of prose.
FenceForms == {"none", "wrapped", "unclosed", "inner"}

\* if envelope_content.startswith("```"): drop the first line, and the last
\* line if it is a fence.
strip_fence_lines(text) ==
    [text EXCEPT !.fence = IF @ \in {"wrapped", "unclosed"} THEN "none" ELSE @]

\* yaml.safe_load raises on a body that is no YAML and on a fence line.
yaml_parses(text) == text.yaml /\ text.fence = "none"

outputs_gate_allowing_extra_keys(task_type, chair_output) ==
    LET envelope_content == strip_fence_lines(chair_output)
    IN  /\ yaml_parses(envelope_content)
        /\ envelope_content.top = "mapping"
        /\ envelope_content.schema_version \in {"str 0.1", "float 0.1"}
        /\ envelope_content.outputs_kind = "mapping"
        /\ \A k \in REQUIRED_OUTPUT_KEYS[task_type] :
              envelope_content.outputs[k] = "text"

\* The envelope gate of run_prompts_council and run_cursor_rules_council:
\* TRUE iff neither yaml.YAMLError nor ValueError is raised.
outputs_gate(task_type, chair_output) ==
    LET envelope_content == strip_fence_lines(chair_output)
        outputs == envelope_content.outputs
        missing_keys == {k \in REQUIRED_OUTPUT_KEYS[task_type] : outputs[k] = "absent"}
        extra_keys == {k \in DOMAIN outputs :
                          outputs[k] # "absent" /\ k \notin REQUIRED_OUTPUT_KEYS[task_type]}
    IN  /\ yaml_parses(envelope_content)
        /\ envelope_content.top = "mapping"
        /\ envelope_content.schema_version \in {"str 0.1", "float 0.1"}
        /\ envelope_content.outputs_kind = "mapping"
        /\ missing_keys = {}
        /\ extra_keys = {}
        /\ \A k \in REQUIRED_OUTPUT_KEYS[task_type] :
              /\ outputs[k] # "number"
              /\ outputs[k] # "blank"

\* The gate applied to a chair output that was handed in.
outputs_gate_call ==
    /\ outcome.op = "chair_output"
    /\ outcome' = [outcome EXCEPT
                      !.op = "envelope_gate",
                      !.result = IF outputs_gate(outcome.task, outcome.chair_output)
                                 THEN "accepted" ELSE "raised"]
    /\ UNCHANGED <<runs, artifacts, approvals, validated, council, issued, cp>>
    /\ UNCHANGED repoVars

\* The event of a finished Phase 2 council that got an answer from its chair.
ChairEvent(result, reason, text) ==
    [op |-> council.task, run |-> council.run, result |-> result,
     reason |-> reason, info |-> {}, text |-> text, failed |-> council.failed]

phase2_chair_result(answer) ==
    /\ council.task \in Phase2Types
    /\ council.pc = "chair_wait"
    /\ LET text == ChairText(council.task, answer)
           content == StripFences(text)
       IN IF answer = "exception"
          THEN /\ artifacts' = write_artifact(artifacts, council.run, "error", PlainText)
               /\ runs' = update_run_status(runs, council.run, "failed")
               /\ outcome' = Finished(council.task, council.run, "raised", "chair_call")
          ELSE IF ~envelope_gate(council.task, content)
               THEN /\ artifacts' = write_artifact(artifacts, council.run, "error",
                                                   GateError(content))
                    /\ runs' = update_run_status(runs, council.run, "failed")
                    /\ outcome' = ChairEvent("raised", "chair_gate", text)
               ELSE /\ artifacts' =
                         write_artifact(
                           write_artifact(artifacts, council.run, "synthesis", text),
                           council.run, "output", content)
                    /\ runs' = update_run_status(runs, council.run, "waiting_for_approval")
                    /\ outcome' = ChairEvent("returned", "", text)
    /\ council' = IdleCouncil
    /\ UNCHANGED <<approvals, validated, issued, cp>>
    /\ UNCHANGED repoVars

----------------------------------------------------------------------------
(* Output validator (validator.py) *)

REQUIRED_SYNTHESIS_SECTIONS == {"SYNTHESIS", "DECISION_PACKET"}

_validate_synthesis_content(content) ==
    /\ REQUIRED_SYNTHESIS_SECTIONS \subseteq content.labels
    /\ content.fenced # "bad"

_validate_decision_packet_content(content) ==
    content.fenced \notin {"bad", "nokeys"}

\* The failed_artifacts list of validate_run_outputs; is_valid iff empty.
validate_run_outputs(run_id) ==
    LET synthesis_artifacts == get_artifacts(artifacts, run_id, "synthesis")
        decision_artifacts == get_artifacts(artifacts, run_id, "decision_packet")
    IN  (IF synthesis_artifacts = <<>>
         THEN {"synthesis"}
         ELSE IF _validate_synthesis_content(synthesis_artifacts[1])
              THEN {} ELSE {"synthesis"})
        \cup
        (IF decision_artifacts = <<>>
         THEN {"decision_packet"}
         ELSE IF _validate_decision_packet_content(decision_artifacts[1])
              THEN {} ELSE {"decision_packet"})

----------------------------------------------------------------------------
\* The error message of _validate_synthesis_content, as the set of the
\* defects it names: it returns at the first check that fails.
_synthesis_error(content) ==
    LET missing_sections == REQUIRED_SYNTHESIS_SECTIONS \ content.labels
    IN  IF missing_sections # {}
        THEN {<<"Missing required sections", s>> : s \in missing_sections}
        ELSE IF content.fenced = "bad" THEN {<<"parse error", "">>}
        ELSE {}

\* The error message of _validate_decision_packet_content.
_decision_packet_error(content) ==
    IF content.fenced = "bad" THEN {<<"parse error", "">>}
    ELSE IF content.fenced = "nokeys" THEN {<<"missing keys", "">>}
    ELSE {}

\* The details of validate_run_outputs: one message for each kind that failed.
error_details(run_id) ==
    LET synthesis_artifacts == get_artifacts(artifacts, run_id, "synthesis")
        decision_artifacts == get_artifacts(artifacts, run_id, "decision_packet")
    IN  [synthesis |->
            IF synthesis_artifacts = <<>>
            THEN {<<"No synthesis artifact found", "">>}
            ELSE _synthesis_error(synthesis_artifacts[1]),
         decision_packet |->
            IF decision_artifacts = <<>>
            THEN {<<"No decision_packet artifact found", "">>}
            ELSE _decision_packet_error(decision_artifacts[1])]

\* A call of validate_run_outputs on a stored run.
validate_outputs_call(run_id) ==
    /\ run_id \in RunIds
    /\ council.pc = "idle"
    /\ outcome' = [op |-> "validate_run_outputs", run |-> run_id,
                   result |-> IF validate_run_outputs(run_id) = {}
                              THEN "valid" ELSE "invalid",
                   reason |-> "", info |-> {},
                   failed_artifacts |-> validate_run_outputs(run_id),
                   details |-> error_details(run_id)]
    /\ UNCHANGED <<runs, artifacts, approvals, validated, council, issued, cp>>
    /\ UNCHANGED repoVars

----------------------------------------------------------------------------

(* Contents as the validators read them (validator.py) *)

\* A content is a sequence of lines; a fenced block counts as one line.  A
\* line is blank, prose, a mention of a name in some markup, or a fenced
\* block in some language whose body parses or not, to a mapping or not.
Line(kind, form, level, name, lang, parses, mapping, keys) ==
    [kind |-> kind, form |-> form, level |-> level, name |-> name,
     lang |-> lang, parses |-> parses, mapping |-> mapping, keys |-> keys]

BlankLine == Line("blank", "", 0, "", "", FALSE, FALSE, {})
ProseLine == Line("prose", "", 0, "", "", FALSE, FALSE, {})
Label(form, level, name) == Line("label", form, level, name, "", FALSE, FALSE, {})
Block(lang, parses, mapping, keys) ==
    Line("block", "", 0, "", lang, parses, mapping, keys)

REQUIRED_DECISION_KEYS == {"decisions", "next_actions"}

\* re.IGNORECASE, on the names and languages the inputs use.
FoldCase(word) ==
    CASE word \in {"SYNTHESIS", "synthesis"} -> "SYNTHESIS"
      [] word \in {"DECISION_PACKET", "Decision_Packet"} -> "DECISION_PACKET"
      [] word \in {"yaml", "YAML"} -> "yaml"
      [] word \in {"json", "JSON"} -> "json"
      [] OTHER -> word

\* re.findall(r"```ya?ml\s*(.*?)```") and re.findall(r"```json\s*(.*?)```").
_extract_yaml_blocks(content) ==
    SelectSeq(content, LAMBDA l : l.kind = "block" /\ FoldCase(l.lang) \in {"yaml", "yml"})

_extract_json_blocks(content) ==
    SelectSeq(content, LAMBDA l : l.kind = "block" /\ FoldCase(l.lang) = "json")

\* The four patterns of a section: "^#{1,6}\s*NAME", "^NAME\s*:",
\* "\*\*NAME\*\*" and "^NAME\b", compared as the letters stand.
section_found_case_sensitive(content, section) ==
    \E i \in 1..Len(content) :
        /\ content[i].kind = "label"
        /\ content[i].name = section
        /\ \/ content[i].form = "heading" /\ content[i].level \in 1..6
           \/ content[i].form \in {"colon", "bold", "plain"}

\* The four patterns of a section, each searched with re.IGNORECASE and
\* re.MULTILINE.
section_found(content, section) ==
    \E i \in 1..Len(content) :
        /\ content[i].kind = "label"
        /\ FoldCase(content[i].name) = section
        /\ \/ content[i].form = "heading" /\ content[i].level \in 1..6
           \/ content[i].form \in {"colon", "bold", "plain"}

\* not content or not content.strip()
IsEmptyContent(content) ==
    \A i \in 1..Len(content) : content[i].kind = "blank"

\* What the two content validators look at in a content that is not empty.
Features(content) ==
    LET blocks == _extract_yaml_blocks(content) \o _extract_json_blocks(content)
    IN  [labels |-> {s \in REQUIRED_SYNTHESIS_SECTIONS : section_found(content, s)},
         fenced |-> IF \E i \in 1..Len(blocks) : ~blocks[i].parses THEN "bad"
                    ELSE IF \E i \in 1..Len(blocks) :
                               /\ blocks[i].mapping
                               /\ ~(REQUIRED_DECISION_KEYS \subseteq blocks[i].keys)
                         THEN "nokeys"
                    ELSE "none"]

\* is_valid of validate_content_standalone.
validate_content_standalone(content, content_type) ==
    IF content_type = "synthesis"
    THEN ~IsEmptyContent(content) /\ _validate_synthesis_content(Features(content))
    ELSE IF content_type = "decision_packet"
    THEN ~IsEmptyContent(content) /\ _validate_decision_packet_content(Features(content))
    ELSE FALSE

\* A call of validate_content_standalone on a content that was handed in.
validate_content_call ==
    /\ outcome.op = "content"
    /\ outcome' = [outcome EXCEPT
                      !.op = "validate_content_standalone",
                      !.result = IF validate_content_standalone(outcome.content,
                                                                outcome.content_type)
                                 THEN "valid" ELSE "invalid"]
    /\ UNCHANGED <<runs, artifacts, approvals, validated, council, issued, cp>>
    /\ UNCHANGED repoVars

----------------------------------------------------------------------------

(* The approve command (cli.py) *)

\* feedback=None: the column is NULL.
NoFeedback == <<>>

create_approval(run_id, decision, feedback) ==
    [approvals EXCEPT ![run_id] =
        Append(@, [decision |-> decision, feedback |-> feedback])]

\* The decisions recorded for a run, oldest first.
Decisions(run_id) ==
    [i \in 1..Len(approvals[run_id]) |-> approvals[run_id][i].decision]

\* str.strip() of a text given as its characters.
Whitespace == {" ", "\n"}

RECURSIVE lstrip(_)
lstrip(text) ==
    IF text # <<>> /\ Head(text) \in Whitespace THEN lstrip(Tail(text)) ELSE text

RECURSIVE rstrip(_)
rstrip(text) ==
    IF text # <<>> /\ text[Len(text)] \in Whitespace
    THEN rstrip(SubSeq(text, 1, Len(text) - 1))
    ELSE text

strip(text) == rstrip(lstrip(text))

augmented_packet_copy(original_packet, run_id, feedback) ==
    original_packet

\* f"{original_packet}\n\n---\n\n## Human Feedback (from rejected run {run_id})\n\n{feedback}",
\* kept as the parts the f-string joins.
augmented_packet(original_packet, run_id, feedback) ==
    [packet |-> original_packet,
     rule |-> "---",
     heading |-> <<"Human Feedback", run_id>>,
     feedback |-> feedback]

Approvable(run_id) ==
    /\ run_id \in RunIds
    /\ runs[run_id].status = "waiting_for_approval"
    /\ get_artifacts(artifacts, run_id, "synthesis") # <<>>

\* The tests the command runs before it looks at --approve, --edit, --reject.
ApproveCheck(run_id) ==
    IF run_id \notin RunIds THEN "run_not_found"
    ELSE IF runs[run_id].status # "waiting_for_approval" THEN "not_waiting"
    ELSE IF get_artifacts(artifacts, run_id, "synthesis") = <<>> THEN "no_synthesis"
    ELSE "ok"

\* The command on a run it refuses: an error message and SystemExit(1).
approve_refused(run_id) ==
    /\ ApproveCheck(run_id) # "ok"
    /\ outcome' = Finished("approve", run_id, "raised", ApproveCheck(run_id))
    /\ UNCHANGED <<runs, artifacts, approvals, validated, council, issued, cp>>
    /\ UNCHANGED repoVars

\* The validation step shared by --approve and --edit.
ValidateAndSetStatus(run_id, arts) ==
    IF validate_run_outputs(run_id) # {}
    THEN /\ artifacts' = write_artifact(arts, run_id, "error", PlainText)
         /\ runs' = update_run_status(runs, run_id, "validation_failed")
         /\ UNCHANGED validated
    ELSE /\ artifacts' = arts
         /\ runs' = update_run_status(runs, run_id, "ready_to_commit")
         /\ validated' = validated \cup {run_id}

approve(run_id) ==
    /\ Approvable(run_id)
    /\ approvals' = create_approval(run_id, "approve", NoFeedback)
    /\ ValidateAndSetStatus(run_id, artifacts)
    /\ outcome' = NoEvent
    /\ UNCHANGED <<council, issued, cp>>
    /\ UNCHANGED repoVars

edit(run_id, edited_content) ==
    /\ Approvable(run_id)
    /\ approvals' = create_approval(run_id, "edit_approve", NoFeedback)
    /\ ValidateAndSetStatus(run_id,
            write_artifact(artifacts, run_id, "synthesis_edited", edited_content))
    /\ outcome' = NoEvent
    /\ UNCHANGED <<council, issued, cp>>
    /\ UNCHANGED repoVars

\* --reject: blank feedback is refused before anything is stored.
reject(run_id, feedback) ==
    /\ Approvable(run_id)
    /\ IF strip(feedback) = <<>>
       THEN /\ outcome' = Finished("approve", run_id, "raised", "feedback_required")
            /\ UNCHANGED <<runs, artifacts, approvals>>
       ELSE /\ Len(runs) < MaxRuns
            /\ approvals' = create_approval(run_id, "reject", feedback)
            /\ LET new == Len(runs) + 1
                   packet_artifacts == get_artifacts(artifacts, run_id, "packet")
               IN /\ runs' = Append(update_run_status(runs, run_id, "failed"),
                                    [project |-> runs[run_id].project,
                                     task_type |-> runs[run_id].task_type,
                                     status |-> "created", parent |-> run_id])
                  /\ artifacts' =
                        IF packet_artifacts # <<>>
                        THEN write_artifact(artifacts, new, "packet",
                                augmented_packet(packet_artifacts[1], run_id, feedback))
                        ELSE artifacts
            /\ outcome' = NoEvent
    /\ UNCHANGED <<validated, council, issued, cp>>
    /\ UNCHANGED repoVars

----------------------------------------------------------------------------
(* Commit engine (repo_writer.py): registry, target tree, lock *)

Committers == {"c1", "c2"}

Variants == {"plan", "spec", "tracker", "prompts", "cursor_rules", "invariants", "pack"}

REGISTRY_DEST == "docs/ARTIFACT_REGISTRY.md"

_FALLBACK_CANONICAL ==
    <<"spec/spec.yaml", "tracker/factory_tracker.yaml", "invariants/invariants.md",
      ".cursor/rules/00_global.md", ".cursor/rules/10_invariants.md",
      "prompts/step_template.md", "prompts/patch_template.md",
      "prompts/review_template.md", "prompts/chair_synthesis_template.md",
      "docs/ARTIFACT_REGISTRY.md">>

_FALLBACK_GENERATED == {"versions/**"}

_FALLBACK_FORBIDDEN ==
    {"prompts/hotfix_sync.md", "tracker/tracker.yaml", "docs/build_guide.md",
     "COMMIT_MANIFEST.md"}

REQUIRED_PROMPT_PATHS ==
    <<"prompts/step_template.md", "prompts/review_template.md",
      "prompts/patch_template.md", "prompts/chair_synthesis_template.md">>

REQUIRED_CURSOR_RULES_PATHS ==
    <<".cursor/rules/00_global.md", ".cursor/rules/10_invariants.md">>

TASK_TYPE_TO_PATHS ==
    [spec |-> <<"spec/spec.yaml">>,
     tracker |-> <<"tracker/factory_tracker.yaml">>,
     prompts |-> REQUIRED_PROMPT_PATHS,
     cursor_rules |-> REQUIRED_CURSOR_RULES_PATHS,
     invariants |-> <<"invariants/invariants.md">>]

PACK_TASK_TYPES == <<"spec", "tracker", "prompts", "cursor_rules", "invariants">>

StablePaths == SeqToSet(_FALLBACK_CANONICAL) \cup _FALLBACK_FORBIDDEN

\* The registry documents the factory may ship (docs/ARTIFACT_REGISTRY.md).
RegistryFile ==
    [present |-> TRUE, readable |-> TRUE,
     canonical |-> <<"spec/spec.yaml", "docs/ARTIFACT_REGISTRY.md">>,
     generated |-> {"versions/**"},
     forbidden |-> {"tracker/tracker.yaml"}]

RegistryMissing ==
    [present |-> FALSE, readable |-> FALSE,
     canonical |-> <<>>, generated |-> {}, forbidden |-> {}]

RegistryDocs == {RegistryFile, RegistryMissing}

\* A registry document that lists every path the commit variants write.
RegistryFull == [RegistryFile EXCEPT !.canonical = _FALLBACK_CANONICAL]

\* Further documents: a file whose read_text raises, a file without items
\* under "## Canonical", a file without a "## Generated" section, a file
\* listing one path under "## Canonical" and under "## Forbidden".
RegistryInputs ==
    RegistryDocs \cup
        {[RegistryFile EXCEPT !.readable = FALSE],
         [RegistryFile EXCEPT !.canonical = <<>>],
         [RegistryFile EXCEPT !.generated = {}],
         [RegistryFile EXCEPT !.forbidden = {"spec/spec.yaml"}]}

parse_artifact_registry_trusting(doc) ==
    IF ~doc.present \/ ~doc.readable
    THEN [canonical |-> _FALLBACK_CANONICAL, generated |-> _FALLBACK_GENERATED,
          forbidden |-> _FALLBACK_FORBIDDEN, source |-> "fallback", error |-> TRUE]
    ELSE [canonical |-> doc.canonical, generated |-> doc.generated,
          forbidden |-> doc.forbidden, source |-> "file", error |-> FALSE]

parse_artifact_registry(doc) ==
    IF ~doc.present \/ ~doc.readable \/ doc.canonical = <<>>
    THEN [canonical |-> _FALLBACK_CANONICAL, generated |-> _FALLBACK_GENERATED,
          forbidden |-> _FALLBACK_FORBIDDEN, source |-> "fallback", error |-> TRUE]
    ELSE [canonical |-> doc.canonical, generated |-> doc.generated,
          forbidden |-> doc.forbidden, source |-> "file", error |-> FALSE]

\* snapshot_dir / path, relative to the target: versions/<timestamp>_<run-id>/path.
SnapshotPath(path) == "versions/<timestamp>_<run-id>/" \o path

\* The snapshot copies and the two manifest files.
VersionPaths ==
    {SnapshotPath(path) :
        path \in StablePaths \cup {"COMMIT_MANIFEST.md", "manifest.json"}}

\* fnmatch.fnmatch: "*" also matches "/", so "versions/**" matches exactly
\* the paths below versions/; a pattern without wildcard matches itself.
fnmatch(path, pattern) ==
    IF pattern = "versions/**" THEN path \in VersionPaths ELSE pattern = path

is_allowed(registry, path) ==
    \/ InSeq(path, registry.canonical)
    \/ \E pattern \in registry.generated : fnmatch(path, pattern)

is_forbidden(registry, path) == path \in registry.forbidden

\* Files of the target tree: which run's content, and how it got there.
NoFile == [run |-> NoRun, src |-> "none"]
TrackedFile == [run |-> NoRun, src |-> "pre"]
FileOf(run_id, src) == [run |-> run_id, src |-> src]

Exists(files, path) == files[path].src # "none"

\* git status --porcelain: the lock marker, the written files and the
\* snapshot files are untracked until somebody commits or ignores them.
_has_uncommitted_changes ==
    \/ lockFile /\ ~tree.lock_ignored
    \/ \E path \in StablePaths : fs[path].src \notin {"none", "pre"}
    \/ snaps # {}

_check_existing_files_blind(files, paths) == {}

_check_existing_files(files, paths) ==
    {path \in SeqToSet(paths) : Exists(files, path)}

RECURSIVE Flatten(_)
Flatten(ss) == IF ss = <<>> THEN <<>> ELSE Head(ss) \o Flatten(Tail(ss))

\* The destinations a variant writes from run content (the registry copy,
\* written only when missing, is not among them).
Destinations(variant) ==
    IF variant = "plan" THEN parse_artifact_registry(registry_doc).canonical
    ELSE IF variant = "pack"
         THEN Flatten([i \in 1..Len(PACK_TASK_TYPES) |-> TASK_TYPE_TO_PATHS[PACK_TASK_TYPES[i]]])
         ELSE TASK_TYPE_TO_PATHS[variant]

\* hashlib.sha256(content.encode("utf-8")).hexdigest(): a digest names the
\* content it was computed from.
_compute_sha256_of_nothing(content) == [sha256 |-> NoFile]

_compute_sha256(content) == [sha256 |-> content]

NoHash == [sha256 |-> "n/a"]

\* CommitManifest(run_id, timestamp) before anything is recorded in it.
CommitManifest ==
    [stable_paths_written |-> <<>>, file_hashes |-> [path \in StablePaths |-> NoHash]]

\* manifest.stable_paths_written.append(path); manifest.file_hashes[path] = ...
Record(manifest, path, content) ==
    [stable_paths_written |-> Append(manifest.stable_paths_written, path),
     file_hashes |-> [manifest.file_hashes EXCEPT ![path] = _compute_sha256(content)]]

IdleCommit ==
    [pc |-> "idle", variant |-> "none", run |-> NoRun, target |-> NoRun,
     content_kind |-> "none", files |-> <<>>, paths |-> <<>>, idx |-> 0, ts |-> 0,
     manifest |-> CommitManifest,
     result |-> "returned", reason |-> "", info |-> {}]

PreLockSteps == {"prepare", "dirty", "paths", "existing", "lock_test"}

\* The steps of the try block, between _acquire_lock and the finally clause.
WriteSteps == {"committing", "write", "manifest", "commit_log", "completed"}

----------------------------------------------------------------------------
(* Commit engine: the checks every variant runs before it takes the lock *)

\* Artifact kinds a variant takes its content from, in order of preference.
ContentChain ==
    [plan |-> <<"synthesis_edited", "synthesis">>,
     spec |-> <<"output", "synthesis_edited", "synthesis">>,
     tracker |-> <<"output", "synthesis_edited", "synthesis">>,
     prompts |-> <<"output">>,
     cursor_rules |-> <<"output">>,
     invariants |-> <<"output">>]

RECURSIVE FirstKind(_, _)
FirstKind(run_id, kinds) ==
    IF kinds = <<>> THEN "none"
    ELSE IF get_artifacts(artifacts, run_id, Head(kinds)) # <<>> THEN Head(kinds)
    ELSE FirstKind(run_id, Tail(kinds))

CommitStatusOk_unapproved(status) ==
    status \in {"ready_to_commit", "waiting_for_approval"}

\* if run.status != "ready_to_commit": raise
CommitStatusOk(status) == status = "ready_to_commit"

\* commit_pack: every pack type has an approved run with an output artifact.
PackComplete(plan_run_id) ==
    \A i \in 1..Len(PACK_TASK_TYPES) :
        LET r == get_latest_approved_run_by_task_type(PACK_TASK_TYPES[i], plan_run_id)
        IN r # NoRun /\ get_artifacts(artifacts, r, "output") # <<>>

\* The missing_types list of commit_pack: per pack type without an approved
\* run the type, per approved run without an output the type and the run.
RECURSIVE missing_types(_, _)
missing_types(plan_run_id, task_types) ==
    IF task_types = <<>> THEN <<>>
    ELSE LET task_type == Head(task_types)
             run == get_latest_approved_run_by_task_type(task_type, plan_run_id)
             rest == missing_types(plan_run_id, Tail(task_types))
         IN IF run # NoRun /\ get_artifacts(artifacts, run, "output") # <<>>
            THEN rest
            ELSE <<[task_type |-> task_type, run |-> run]>> \o rest

\* The checks on the run, before the target directory is touched.
RunCheck(variant, run_id) ==
    IF run_id \notin RunIds THEN "run_not_found"
    ELSE IF variant = "pack"
         THEN IF PackComplete(run_id) THEN "ok" ELSE "missing_types"
    ELSE IF ~CommitStatusOk(runs[run_id].status) THEN "not_ready"
    ELSE IF variant # "plan" /\ runs[run_id].task_type # variant THEN "wrong_task_type"
    ELSE IF FirstKind(run_id, ContentChain[variant]) = "none" THEN "no_content"
    ELSE "ok"

\* The artifact kind whose content the variant goes on with.
ContentKind(variant, run_id) ==
    IF variant = "pack" THEN "output" ELSE FirstKind(run_id, ContentChain[variant])

\* Which pack type owns a destination path.
OwnerType(path) ==
    CHOOSE t \in Phase2Types : InSeq(path, TASK_TYPE_TO_PATHS[t])

\* The content a variant will write to a destination.
ContentFor(variant, run_id, path) ==
    IF variant = "plan" THEN FileOf(run_id, "stub")
    ELSE IF variant = "pack"
         THEN FileOf(get_latest_approved_run_by_task_type(OwnerType(path), run_id), "output")
         ELSE FileOf(run_id, FirstKind(run_id, ContentChain[variant]))

CommitEvent(c, result, reason) ==
    [Finished("commit", c.run, result, reason) EXCEPT !.info = c.info]

\* The attempt ends and its exception or manifest reaches the caller.
Terminate(p, result, reason) ==
    /\ outcome' = CommitEvent(cp[p], result, reason)
    /\ cp' = [cp EXCEPT ![p] = IdleCommit]

\* commit_*: invocation, run checks and content selection.  A failed run
\* check raises before anything is touched.
commit_begin(p, variant, run_id) ==
    /\ cp[p].pc = "idle"
    /\ RunCheck(variant, run_id) = "ok"
    /\ LET dests == Destinations(variant)
       IN cp' = [cp EXCEPT ![p] =
                   [IdleCommit EXCEPT
                      !.pc = "prepare", !.variant = variant, !.run = run_id,
                      !.target = run_id,
                      !.content_kind = ContentKind(variant, run_id),
                      !.paths = dests,
                      !.files = [i \in 1..Len(dests) |-> ContentFor(variant, run_id, dests[i])],
                      !.info = (IF lockFile THEN {"started_locked"} ELSE {})
                               \cup (IF \E i \in 1..Len(dests) : Exists(fs, dests[i])
                                     THEN {"dest_existed"} ELSE {})
                               \cup (IF \E i \in 1..Len(dests) :
                                        LET registry == parse_artifact_registry(registry_doc)
                                        IN /\ is_forbidden(registry, dests[i])
                                           /\ is_allowed(registry, dests[i])
                                     THEN {"forbidden_dest"} ELSE {})]]
    /\ outcome' = NoEvent
    /\ UNCHANGED <<runs, artifacts, approvals, validated, council, issued>>
    /\ UNCHANGED repoVars

\* commit_* on a run that fails a run check: the ValueError reaches the
\* caller before the target path is resolved.
commit_refused(p, variant, run_id) ==
    /\ cp[p].pc = "idle"
    /\ RunCheck(variant, run_id) # "ok"
    /\ outcome' = [op |-> "commit", run |-> run_id, result |-> "raised",
                   reason |-> RunCheck(variant, run_id), info |-> {},
                   missing |-> IF RunCheck(variant, run_id) = "missing_types"
                               THEN missing_types(run_id, PACK_TASK_TYPES)
                               ELSE <<>>]
    /\ UNCHANGED <<runs, artifacts, approvals, validated, council, issued, cp>>
    /\ UNCHANGED repoVars

\* repo_path.mkdir, parse_artifact_registry, _is_git_repo.
commit_prepare(p) ==
    /\ cp[p].pc = "prepare"
    /\ tree' = [tree EXCEPT !.exists = TRUE]
    /\ LET registry == parse_artifact_registry(registry_doc)
       IN IF registry.error /\ registry.source = "fallback"
          THEN Terminate(p, "raised", "registry")
          ELSE IF ~tree.git
               THEN Terminate(p, "raised", "non_git")
               ELSE /\ cp' = [cp EXCEPT ![p].pc = "dirty"]
                    /\ outcome' = NoEvent
    /\ UNCHANGED <<runs, artifacts, approvals, validated, council, issued>>
    /\ UNCHANGED <<fs, snaps, lockFile, clobbered, registry_doc>>

commit_dirty_check(p) ==
    /\ cp[p].pc = "dirty"
    /\ IF _has_uncommitted_changes
       THEN Terminate(p, "raised", "dirty")
       ELSE /\ cp' = [cp EXCEPT ![p].pc = "paths"]
            /\ outcome' = NoEvent
    /\ UNCHANGED <<runs, artifacts, approvals, validated, council, issued>>
    /\ UNCHANGED repoVars

\* The single-artifact variants and the pack test each path in turn.
RECURSIVE PathVerdict(_, _)
PathVerdict(registry, paths) ==
    IF paths = <<>> THEN "ok"
    ELSE IF is_forbidden(registry, Head(paths)) THEN "forbidden"
    ELSE IF ~is_allowed(registry, Head(paths)) THEN "not_allowed"
    ELSE PathVerdict(registry, Tail(paths))

PlanPathVerdict_allowed_wins(registry, paths) ==
    IF \E path \in SeqToSet(paths) : ~is_allowed(registry, path) THEN "not_allowed"
    ELSE "ok"

\* commit_outputs tests the whole list for forbidden paths first.
PlanPathVerdict(registry, paths) ==
    IF \E path \in SeqToSet(paths) : is_forbidden(registry, path) THEN "forbidden"
    ELSE IF \E path \in SeqToSet(paths) : ~is_allowed(registry, path) THEN "not_allowed"
    ELSE "ok"

\* paths_to_write: the destinations, plus the registry copy when missing.
paths_to_write(variant, dests) ==
    IF variant # "plan" /\ ~Exists(fs, REGISTRY_DEST)
    THEN Append(dests, REGISTRY_DEST)
    ELSE dests

commit_path_check(p) ==
    /\ cp[p].pc = "paths"
    /\ LET registry == parse_artifact_registry(registry_doc)
           paths == paths_to_write(cp[p].variant, cp[p].paths)
           verdict == IF cp[p].variant = "plan"
                      THEN PlanPathVerdict(registry, paths)
                      ELSE PathVerdict(registry, paths)
       IN IF verdict # "ok"
          THEN Terminate(p, "raised", verdict)
          ELSE /\ cp' = [cp EXCEPT ![p].pc = "existing"]
               /\ outcome' = NoEvent
    /\ UNCHANGED <<runs, artifacts, approvals, validated, council, issued>>
    /\ UNCHANGED repoVars

\* Additive-only test and, for the pack, the creation of the pack run.
commit_existing_check(p) ==
    /\ cp[p].pc = "existing"
    /\ IF _check_existing_files(fs, cp[p].paths) # {}
       THEN /\ Terminate(p, "raised", "overwrite")
            /\ UNCHANGED <<runs, artifacts>>
       ELSE IF cp[p].variant = "pack"
            THEN /\ Len(runs) + 1 \in DOMAIN artifacts
                 /\ runs' = create_run(DefaultProject, "commit_pack", cp[p].run)
                 /\ cp' = [cp EXCEPT ![p].pc = "lock_test", ![p].target = Len(runs) + 1]
                 /\ outcome' = NoEvent
                 /\ UNCHANGED artifacts
            ELSE /\ cp' = [cp EXCEPT ![p].pc = "lock_test"]
                 /\ outcome' = NoEvent
                 /\ UNCHANGED <<runs, artifacts>>
    /\ UNCHANGED <<approvals, validated, council, issued>>
    /\ UNCHANGED repoVars

acquire_lock_test_removing_marker(p) ==
    /\ cp[p].pc = "lock_test"
    /\ IF lockFile
       THEN /\ Terminate(p, "raised", "lock_contention")
            /\ lockFile' = FALSE
       ELSE /\ cp' = [cp EXCEPT ![p].pc = "lock_write"]
            /\ outcome' = NoEvent
            /\ UNCHANGED lockFile
    /\ UNCHANGED <<runs, artifacts, approvals, validated, council, issued>>
    /\ UNCHANGED <<fs, snaps, tree, clobbered, registry_doc>>

\* _acquire_lock, first half: if lock_file.exists(): return False
acquire_lock_test(p) ==
    /\ cp[p].pc = "lock_test"
    /\ IF lockFile
       THEN Terminate(p, "raised", "lock_contention")
       ELSE /\ cp' = [cp EXCEPT ![p].pc = "lock_write"]
            /\ outcome' = NoEvent
    /\ UNCHANGED <<runs, artifacts, approvals, validated, council, issued>>
    /\ UNCHANGED repoVars

\* _acquire_lock, second half: lock_file.write_text(...); return True
acquire_lock_write(p) ==
    /\ cp[p].pc = "lock_write"
    /\ lockFile' = TRUE
    /\ cp' = [cp EXCEPT ![p].pc = "committing", ![p].info = @ \cup {"acquired"}]
    /\ outcome' = NoEvent
    /\ UNCHANGED <<runs, artifacts, approvals, validated, council, issued>>
    /\ UNCHANGED <<fs, snaps, tree, clobbered, registry_doc>>

----------------------------------------------------------------------------
(* Commit engine: the write phase (the try block) and the release *)

Throw_past_finally(p) == cp' = [cp EXCEPT ![p] = IdleCommit]

\* An exception inside the try block: control passes to the finally clause.
Throw(p) ==
    cp' = [cp EXCEPT ![p].pc = "release_test", ![p].result = "raised",
                     ![p].reason = "write_phase"]

Timestamps == 1..MaxClock

\* update_run_status(run_id, "committing"), timestamp, snapshot directory.
set_committing(p, ts, fails) ==
    /\ cp[p].pc = "committing"
    /\ IF fails
       THEN /\ Throw(p)
            /\ UNCHANGED runs
       ELSE /\ runs' = update_run_status(runs, cp[p].target, "committing")
            /\ cp' = [cp EXCEPT ![p].pc = "write", ![p].idx = 1, ![p].ts = ts]
    /\ outcome' = NoEvent
    /\ UNCHANGED <<artifacts, approvals, validated, council, issued>>
    /\ UNCHANGED repoVars

Snapshot(c, path, file) == [ts |-> c.ts, run |-> c.target, path |-> path, file |-> file]

\* write_text replaces whatever the snapshot directory held under the path.
WriteSnapshot(c, path, file) ==
    {s \in snaps : ~(s.ts = c.ts /\ s.run = c.target /\ s.path = path)}
        \cup {Snapshot(c, path, file)}

\* The write loop: per destination the stable file, then its snapshot copy.
\* After the last destination every variant but commit_outputs copies the
\* factory registry into the target if the target has none.
write_path(p, fails) ==
    /\ cp[p].pc = "write"
    /\ LET c == cp[p]
           path == c.paths[c.idx]
           copy == /\ c.variant # "plan"
                   /\ ~Exists(fs, REGISTRY_DEST)
                   /\ registry_doc.present
       IN IF fails
          THEN /\ Throw(p)
               /\ UNCHANGED <<fs, snaps, clobbered>>
          ELSE IF c.idx <= Len(c.paths)
               THEN /\ fs' = [fs EXCEPT ![path] = c.files[c.idx]]
                    /\ snaps' = WriteSnapshot(c, path, c.files[c.idx])
                    /\ clobbered' = IF Exists(fs, path)
                                    THEN clobbered \cup {path} ELSE clobbered
                    /\ cp' = [cp EXCEPT ![p].idx = @ + 1,
                                        ![p].manifest = Record(@, path, c.files[c.idx])]
               ELSE /\ cp' = [cp EXCEPT ![p].pc = "manifest",
                                        ![p].manifest =
                                           IF copy
                                           THEN Record(@, REGISTRY_DEST,
                                                       FileOf(NoRun, "registry"))
                                           ELSE @]
                    /\ fs' = IF copy
                             THEN [fs EXCEPT ![REGISTRY_DEST] = FileOf(NoRun, "registry")]
                             ELSE fs
                    /\ snaps' = IF copy
                                THEN WriteSnapshot(c, REGISTRY_DEST, FileOf(NoRun, "registry"))
                                ELSE snaps
                    /\ UNCHANGED clobbered
    /\ outcome' = NoEvent
    /\ UNCHANGED <<runs, artifacts, approvals, validated, council, issued>>
    /\ UNCHANGED <<lockFile, tree, registry_doc>>

\* COMMIT_MANIFEST.md and manifest.json in the snapshot directory.
write_manifest(p, fails) ==
    /\ cp[p].pc = "manifest"
    /\ IF fails
       THEN /\ Throw(p)
            /\ UNCHANGED snaps
       ELSE /\ snaps' = (WriteSnapshot(cp[p], "COMMIT_MANIFEST.md",
                                       FileOf(cp[p].target, "manifest"))
                          \cup {Snapshot(cp[p], "manifest.json",
                                         FileOf(cp[p].target, "manifest"))})
            /\ cp' = [cp EXCEPT ![p].pc = "commit_log"]
    /\ outcome' = NoEvent
    /\ UNCHANGED <<runs, artifacts, approvals, validated, council, issued>>
    /\ UNCHANGED <<fs, lockFile, tree, clobbered, registry_doc>>

\* The manifest stored as an artifact of the run.
write_commit_log(p, fails) ==
    /\ cp[p].pc = "commit_log"
    /\ IF fails
       THEN /\ Throw(p)
            /\ UNCHANGED artifacts
       ELSE /\ artifacts' = write_artifact(artifacts, cp[p].target,
                                IF cp[p].variant = "pack" THEN "commit_manifest"
                                                          ELSE "commit_log",
                                PlainText)
            /\ cp' = [cp EXCEPT ![p].pc = "completed"]
    /\ outcome' = NoEvent
    /\ UNCHANGED <<runs, approvals, validated, council, issued>>
    /\ UNCHANGED repoVars

\* update_run_status(run_id, "completed"); return manifest
set_completed(p, fails) ==
    /\ cp[p].pc = "completed"
    /\ IF fails
       THEN /\ Throw(p)
            /\ UNCHANGED runs
       ELSE /\ runs' = update_run_status(runs, cp[p].target, "completed")
            /\ cp' = [cp EXCEPT ![p].pc = "release_test"]
    /\ outcome' = NoEvent
    /\ UNCHANGED <<artifacts, approvals, validated, council, issued>>
    /\ UNCHANGED repoVars

\* finally: _release_lock, first half: if lock_file.exists()
release_lock_test(p) ==
    /\ cp[p].pc = "release_test"
    /\ IF lockFile
       THEN /\ cp' = [cp EXCEPT ![p].pc = "release_unlink"]
            /\ outcome' = NoEvent
       ELSE Terminate(p, cp[p].result, cp[p].reason)
    /\ UNCHANGED <<runs, artifacts, approvals, validated, council, issued>>
    /\ UNCHANGED repoVars

\* _release_lock, second half: lock_file.unlink(); it raises when another
\* attempt removed the marker in between.
release_lock_unlink(p) ==
    /\ cp[p].pc = "release_unlink"
    /\ IF lockFile
       THEN /\ lockFile' = FALSE
            /\ Terminate(p, cp[p].result, cp[p].reason)
       ELSE /\ Terminate(p, "raised", "release")
            /\ UNCHANGED lockFile
    /\ UNCHANGED <<runs, artifacts, approvals, validated, council, issued>>
    /\ UNCHANGED <<fs, snaps, tree, clobbered, registry_doc>>

----------------------------------------------------------------------------
(* Initial state and next-state relation *)

\* Target directories: a clean git work tree that ignores the lock marker
\* or does not, a directory outside any work tree, a path not yet created.
TreeInputs ==
    {[exists |-> TRUE, git |-> TRUE, lock_ignored |-> FALSE],
     [exists |-> TRUE, git |-> TRUE, lock_ignored |-> TRUE],
     [exists |-> FALSE, git |-> FALSE, lock_ignored |-> FALSE]}

\* Files already tracked in the target.
TrackedInputs == {{}, {"spec/spec.yaml"}}

Init ==
    /\ runs = <<>>
    /\ artifacts = [r \in 1..MaxRuns |-> NoArtifacts]
    /\ approvals = [r \in 1..MaxRuns |-> <<>>]
    /\ validated = {}
    /\ council = IdleCouncil
    /\ issued = [r \in 1..MaxRuns |-> ZeroCalls]
    /\ outcome = NoEvent
    /\ cp = [p \in Committers |-> IdleCommit]
    /\ lockFile = FALSE
    /\ snaps = {}
    /\ clobbered = {}
    /\ registry_doc \in RegistryDocs
    /\ tree \in TreeInputs
    /\ \E tracked \in TrackedInputs :
          /\ tracked # {} => tree.exists
          /\ fs = [path \in StablePaths |->
                      IF path \in tracked THEN TrackedFile ELSE NoFile]

\* The nodes of the council graph.
PlanSteps ==
    \/ load_packet
    \/ draft_generate
    \/ \E m \in Participants, ok \in BOOLEAN : _generate_single_draft(m, ok)
    \/ draft_gate
    \/ critique_generate
    \/ \E m \in Participants, ok \in BOOLEAN : _generate_single_critique(m, ok)
    \/ critique_join
    \/ chair_synthesize
    \/ \E ok \in BOOLEAN, text \in ChairTexts : chair_result(ok, text)
    \/ pause_for_approval

\* "council run plan" hands run_council a roster of two or more models.
PlanCouncilNext ==
    \/ \E n \in 2..MaxModels, packet \in PacketInputs : run_council(DefaultProject, n, packet)
    \/ PlanSteps

Phase2CouncilNext ==
    \/ \E t \in Phase2Types, r \in 1..MaxRuns, n \in 0..MaxModels :
          run_phase2_council(t, r, n)
    \/ \E m \in Participants, ok \in BOOLEAN : _generate_phase2_draft(m, ok)
    \/ phase2_draft_gate
    \/ \E m \in Participants, ok \in BOOLEAN : _generate_phase2_critique(m, ok)
    \/ phase2_chair_call
    \/ \E answer \in ChairAnswers : phase2_chair_result(answer)

\* The approval command with every run id and every feedback the prompt can
\* return.
RejectNext ==
    \/ \E r \in 1..MaxRuns : approve(r)
    \/ \E r \in 1..MaxRuns, text \in EditedTexts : edit(r, text)
    \/ \E r \in 1..MaxRuns, feedback \in FeedbackInputs : reject(r, feedback)
    \/ \E r \in 0..MaxRuns : approve_refused(r)

CouncilNext == PlanCouncilNext \/ Phase2CouncilNext

ApproveNext ==
    \/ \E r \in 1..MaxRuns : approve(r)
    \/ \E r \in 1..MaxRuns, text \in EditedTexts : edit(r, text)
    \/ \E r \in 1..MaxRuns, feedback \in Feedbacks : reject(r, feedback)

\* The steps of a commit after its run checks.
CommitBody(p) ==
    \/ commit_prepare(p)
    \/ commit_dirty_check(p)
    \/ commit_path_check(p)
    \/ commit_existing_check(p)
    \/ acquire_lock_test(p)
    \/ acquire_lock_write(p)
    \/ \E ts \in Timestamps, fails \in BOOLEAN : set_committing(p, ts, fails)
    \/ \E fails \in BOOLEAN : write_path(p, fails)
    \/ \E fails \in BOOLEAN : write_manifest(p, fails)
    \/ \E fails \in BOOLEAN : write_commit_log(p, fails)
    \/ \E fails \in BOOLEAN : set_completed(p, fails)
    \/ release_lock_test(p)
    \/ release_lock_unlink(p)

\* The steps of one invocation of the commit command.
CommitSteps(p) ==
    \/ \E variant \in Variants, r \in 1..MaxRuns : commit_begin(p, variant, r)
    \/ CommitBody(p)

CommitNext == \E p \in Committers : CommitSteps(p)

DepsNext ==
    \E task_type \in Phase2Types, inputs \in InputMappings :
        validate_call(task_type, inputs)

\* Calls the commands refuse.
RefusedNext ==
    \/ \E r \in 0..MaxRuns : approve_refused(r)
    \/ \E p \in Committers, variant \in Variants, r \in 0..MaxRuns :
          commit_refused(p, variant, r)
    \/ \E t \in Phase2Types, r \in 0..MaxRuns, n \in 0..MaxModels :
          run_phase2_council_raises(t, r, n)

Next == CouncilNext \/ ApproveNext \/ CommitNext \/ DepsNext \/ RefusedNext

Spec == Init /\ [][Next]_vars

\* What a plan council that ran to its end leaves in the store.
FinishedPlan(text) ==
    [NoArtifacts EXCEPT !["packet"] = <<PlainText>>,
                        !["draft"] = <<PlainText, PlainText>>,
                        !["critique"] = <<PlainText, PlainText>>,
                        !["synthesis"] = <<text>>,
                        !["decision_packet"] = <<DecisionPart(text)>>,
                        !["plan"] = <<text>>]

\* The councils and the approval command, next to an untouched target.
InitCouncil ==
    /\ Init
    /\ registry_doc = RegistryFile
    /\ tree = [exists |-> TRUE, git |-> TRUE, lock_ignored |-> FALSE]
    /\ \A path \in StablePaths : fs[path] = NoFile

SpecCouncil == InitCouncil /\ [][CouncilNext \/ ApproveNext]_vars

\* Plan runs of either project whose councils have returned, each with the
\* packet it was started on.
InitReject ==
    /\ \E n \in 1..MaxPlans :
          /\ runs \in [1..n -> [project : ProjectInputs, task_type : {"plan"},
                                status : {"waiting_for_approval"}, parent : {NoRun}]]
          /\ \E texts \in [1..n -> ChairTexts], packets \in [1..n -> PacketTexts] :
                artifacts = [r \in 1..MaxRuns |->
                                IF r <= n
                                THEN [FinishedPlan(texts[r]) EXCEPT
                                         !["packet"] = <<packets[r]>>]
                                ELSE NoArtifacts]
          /\ issued = [r \in 1..MaxRuns |->
                          IF r <= n THEN [draft |-> 2, critique |-> 2, chair |-> 1]
                          ELSE ZeroCalls]
    /\ approvals = [r \in 1..MaxRuns |-> <<>>]
    /\ validated = {}
    /\ council = IdleCouncil
    /\ outcome = NoEvent
    /\ cp = [p \in Committers |-> IdleCommit]
    /\ lockFile = FALSE
    /\ snaps = {}
    /\ clobbered = {}
    /\ registry_doc = RegistryFile
    /\ tree = [exists |-> TRUE, git |-> TRUE, lock_ignored |-> FALSE]
    /\ fs = [path \in StablePaths |-> NoFile]

SpecReject == InitReject /\ [][RejectNext]_vars

\* The ledger after a plan council returned and its run was approved with
\* --approve or with --edit.
ApprovedPlan(decision) ==
    /\ runs = <<[project |-> DefaultProject, task_type |-> "plan", status |-> "ready_to_commit", parent |-> NoRun]>>
    /\ artifacts = [r \in 1..MaxRuns |->
                       IF r # 1 THEN NoArtifacts
                       ELSE IF decision = "approve" THEN FinishedPlan(GoodText)
                       ELSE [FinishedPlan(GoodText) EXCEPT
                                !["synthesis_edited"] = <<NoDecisionText>>]]
    /\ approvals = [r \in 1..MaxRuns |-> IF r = 1 THEN <<[decision |-> decision, feedback |-> NoFeedback]>>
                       ELSE <<>>]
    /\ validated = {1}
    /\ issued = [r \in 1..MaxRuns |->
                    IF r = 1 THEN [draft |-> 2, critique |-> 2, chair |-> 1]
                    ELSE ZeroCalls]

\* The Phase 2 councils and the approval of their runs, started on a ledger
\* whose plan run is approved.
InitPhase2 ==
    /\ \E decision \in {"approve", "edit_approve"} : ApprovedPlan(decision)
    /\ council = IdleCouncil
    /\ outcome = NoEvent
    /\ cp = [p \in Committers |-> IdleCommit]
    /\ lockFile = FALSE
    /\ snaps = {}
    /\ clobbered = {}
    /\ registry_doc = RegistryFile
    /\ tree = [exists |-> TRUE, git |-> TRUE, lock_ignored |-> FALSE]
    /\ fs = [path \in StablePaths |-> NoFile]

Phase2Next ==
    \/ Phase2CouncilNext
    \/ \E r \in 1..MaxRuns : approve(r)
    \/ \E r \in 1..MaxRuns, text \in EditedTexts : edit(r, text)

SpecPhase2 == InitPhase2 /\ [][Phase2Next]_vars

\* The councils alone, plan and Phase 2, on a ledger whose plan run is
\* approved.
SpecCritique == InitPhase2 /\ [][CouncilNext]_vars

\* The steps of a council invocation after its run was created.
CouncilSteps ==
    \/ PlanSteps
    \/ \E m \in Participants, ok \in BOOLEAN : _generate_phase2_draft(m, ok)
    \/ phase2_draft_gate
    \/ \E m \in Participants, ok \in BOOLEAN : _generate_phase2_critique(m, ok)
    \/ phase2_chair_call
    \/ \E answer \in ChairAnswers : phase2_chair_result(answer)

\* The plan council and the spec council alone, called on the
\* approved plan run, where an invocation that has started goes on: every
\* node runs to its end, every submitted participant call returns or raises,
\* and the joins of the thread pools then proceed.
FairCouncilNext ==
    \/ \E n \in 2..MaxModels, packet \in PacketInputs : run_council(DefaultProject, n, packet)
    \/ \E n \in 0..MaxModels : run_phase2_council("spec", 1, n)
    \/ CouncilSteps

SpecCouncilFair == InitPhase2 /\ [][FairCouncilNext]_vars /\ WF_vars(CouncilSteps)

\* The council entry points called with any roster and any plan run id, on
\* a ledger whose plan run is approved.
PreflightNext ==
    \/ \E n \in 0..MaxModels, packet \in PacketInputs : run_council(DefaultProject, n, packet)
    \/ PlanSteps
    \/ Phase2CouncilNext
    \/ \E t \in Phase2Types, r \in 0..MaxRuns, n \in 0..MaxModels :
          run_phase2_council_raises(t, r, n)

SpecPreflight == InitPhase2 /\ [][PreflightNext]_vars


\* Calls of validate_allowed_inputs with every task type and input mapping.
SpecDeps == InitCouncil /\ [][DepsNext]_vars

\* The lines the contents handed to the validators are made of.
ContentLines ==
    {BlankLine, ProseLine,
     Label("heading", 1, "SYNTHESIS"), Label("heading", 6, "Decision_Packet"),
     Label("heading", 7, "DECISION_PACKET"), Label("colon", 0, "synthesis"),
     Label("bold", 0, "DECISION_PACKET"), Label("plain", 0, "DECISION_PACKET"),
     Label("inline", 0, "SYNTHESIS"), Label("heading", 2, "SUMMARY"),
     Block("yaml", TRUE, TRUE, REQUIRED_DECISION_KEYS),
     Block("YAML", TRUE, TRUE, {"decisions"}),
     Block("yml", TRUE, FALSE, {}),
     Block("yaml", FALSE, FALSE, {}),
     Block("json", TRUE, TRUE, {"next_actions"}),
     Block("JSON", FALSE, FALSE, {}),
     Block("python", FALSE, FALSE, {})}

ContentInputs == UNION {[1..n -> ContentLines] : n \in 0..MaxLines}

ContentTypes == {"synthesis", "decision_packet", "unknown_type"}

\* The validators, each called once on a content of a content type.
InitValidator ==
    /\ runs = <<>>
    /\ artifacts = [r \in 1..MaxRuns |-> NoArtifacts]
    /\ approvals = [r \in 1..MaxRuns |-> <<>>]
    /\ validated = {}
    /\ council = IdleCouncil
    /\ issued = [r \in 1..MaxRuns |-> ZeroCalls]
    /\ \E content \in ContentInputs, content_type \in ContentTypes :
          outcome = [op |-> "content", run |-> NoRun, result |-> "none",
                     reason |-> "", info |-> {},
                     content |-> content, content_type |-> content_type]
    /\ cp = [p \in Committers |-> IdleCommit]
    /\ lockFile = FALSE
    /\ snaps = {}
    /\ clobbered = {}
    /\ registry_doc = RegistryFile
    /\ tree = [exists |-> TRUE, git |-> TRUE, lock_ignored |-> TRUE]
    /\ fs = [path \in StablePaths |-> NoFile]

ValidatorNext == validate_content_call

SpecValidator == InitValidator /\ [][ValidatorNext]_vars

\* The texts a chair may have stored, by the features the validators read.
StoredTexts ==
    [labels : SUBSET REQUIRED_SYNTHESIS_SECTIONS, fenced : {"none", "bad", "nokeys"}]

\* validate_run_outputs called on one plan run whose council has returned,
\* with any synthesis and with any decision packet or none.
InitDetails ==
    /\ runs = <<[project |-> DefaultProject, task_type |-> "plan",
                 status |-> "waiting_for_approval", parent |-> NoRun]>>
    /\ \E synthesis \in StoredTexts,
          decision \in {<<>>} \cup {<<DecisionPart(t)>> : t \in StoredTexts} :
          artifacts = [r \in 1..MaxRuns |->
                          IF r = 1
                          THEN [NoArtifacts EXCEPT !["synthesis"] = <<synthesis>>,
                                                   !["decision_packet"] = decision]
                          ELSE NoArtifacts]
    /\ issued = [r \in 1..MaxRuns |->
                    IF r = 1 THEN [draft |-> 2, critique |-> 2, chair |-> 1]
                    ELSE ZeroCalls]
    /\ approvals = [r \in 1..MaxRuns |-> <<>>]
    /\ validated = {}
    /\ council = IdleCouncil
    /\ outcome = NoEvent
    /\ cp = [p \in Committers |-> IdleCommit]
    /\ lockFile = FALSE
    /\ snaps = {}
    /\ clobbered = {}
    /\ registry_doc = RegistryFile
    /\ tree = [exists |-> TRUE, git |-> TRUE, lock_ignored |-> FALSE]
    /\ fs = [path \in StablePaths |-> NoFile]

DetailsNext == \E r \in 1..MaxRuns : validate_outputs_call(r)

SpecDetails == InitDetails /\ [][DetailsNext]_vars

\* What a key of outputs is mapped to: nothing, a string with text, a string
\* of nothing but whitespace, or a number.
OutputValues == {"absent", "text", "blank", "number"}

SchemaVersions == {"str 0.1", "float 0.1", "str 0.2", "absent"}

ChairOutput(task_type, fence, yaml, top, schema_version, outputs_kind, outputs) ==
    [task |-> task_type, fence |-> fence, yaml |-> yaml, top |-> top,
     schema_version |-> schema_version, outputs_kind |-> outputs_kind,
     outputs |-> outputs]

NoOutputs(task_type) == [k \in OutputKeys(task_type) |-> "absent"]

\* The chair outputs handed to the gate of a task type.
ChairOutputs(task_type) ==
    {ChairOutput(task_type, fence, FALSE, "none", "absent", "absent", NoOutputs(task_type)) :
        fence \in FenceForms}
    \cup {ChairOutput(task_type, fence, TRUE, "list", "absent", "absent", NoOutputs(task_type)) :
             fence \in FenceForms}
    \cup {ChairOutput(task_type, fence, TRUE, "mapping", sv, kind, NoOutputs(task_type)) :
             fence \in FenceForms, sv \in SchemaVersions, kind \in {"absent", "list"}}
    \cup {ChairOutput(task_type, fence, TRUE, "mapping", sv, "mapping", outputs) :
             fence \in FenceForms, sv \in SchemaVersions,
             outputs \in [OutputKeys(task_type) -> OutputValues]}

\* The envelope gates of the prompts and cursor_rules councils, each called
\* once on a chair output.
InitEnvelope ==
    /\ runs = <<>>
    /\ artifacts = [r \in 1..MaxRuns |-> NoArtifacts]
    /\ approvals = [r \in 1..MaxRuns |-> <<>>]
    /\ validated = {}
    /\ council = IdleCouncil
    /\ issued = [r \in 1..MaxRuns |-> ZeroCalls]
    /\ \E task_type \in {"prompts", "cursor_rules"} :
          \E chair_output \in ChairOutputs(task_type) :
             outcome = [op |-> "chair_output", run |-> NoRun, result |-> "none",
                        reason |-> "", info |-> {},
                        task |-> task_type, chair_output |-> chair_output]
    /\ cp = [p \in Committers |-> IdleCommit]
    /\ lockFile = FALSE
    /\ snaps = {}
    /\ clobbered = {}
    /\ registry_doc = RegistryFile
    /\ tree = [exists |-> TRUE, git |-> TRUE, lock_ignored |-> TRUE]
    /\ fs = [path \in StablePaths |-> NoFile]

EnvelopeNext == outputs_gate_call

SpecEnvelope == InitEnvelope /\ [][EnvelopeNext]_vars

\* The approval command and the commit engine, started on a ledger of plan
\* runs whose councils have returned.
InitCommit ==
    /\ \E n \in 1..MaxPlans :
          /\ n <= MaxRuns
          /\ runs = [r \in 1..n |-> [project |-> DefaultProject, task_type |-> "plan",
                                     status |-> "waiting_for_approval",
                                     parent |-> NoRun]]
          /\ \E texts \in [1..n -> ChairTexts] :
                artifacts = [r \in 1..MaxRuns |->
                                IF r <= n THEN FinishedPlan(texts[r]) ELSE NoArtifacts]
          /\ issued = [r \in 1..MaxRuns |->
                          IF r <= n THEN [draft |-> 2, critique |-> 2, chair |-> 1]
                          ELSE ZeroCalls]
    /\ approvals = [r \in 1..MaxRuns |-> <<>>]
    /\ validated = {}
    /\ council = IdleCouncil
    /\ outcome = NoEvent
    /\ cp = [p \in Committers |-> IdleCommit]
    /\ lockFile = FALSE
    /\ snaps = {}
    /\ clobbered = {}
    /\ registry_doc \in RegistryDocs
    /\ tree \in TreeInputs
    /\ \E tracked \in TrackedInputs :
          /\ tracked # {} => tree.exists
          /\ fs = [path \in StablePaths |->
                      IF path \in tracked THEN TrackedFile ELSE NoFile]

SpecCommit == InitCommit /\ [][ApproveNext \/ CommitNext]_vars

\* The approval command and commits issued one after the other into an empty
\* clean work tree, for every kind of registry document the factory may hold.
InitRegistry ==
    /\ runs = <<[project |-> DefaultProject, task_type |-> "plan", status |-> "waiting_for_approval",
                 parent |-> NoRun]>>
    /\ \E text \in ChairTexts :
          artifacts = [r \in 1..MaxRuns |->
                          IF r = 1 THEN FinishedPlan(text) ELSE NoArtifacts]
    /\ issued = [r \in 1..MaxRuns |->
                    IF r = 1 THEN [draft |-> 2, critique |-> 2, chair |-> 1]
                    ELSE ZeroCalls]
    /\ approvals = [r \in 1..MaxRuns |-> <<>>]
    /\ validated = {}
    /\ council = IdleCouncil
    /\ outcome = NoEvent
    /\ cp = [p \in Committers |-> IdleCommit]
    /\ lockFile = FALSE
    /\ snaps = {}
    /\ clobbered = {}
    /\ registry_doc \in RegistryInputs
    /\ tree \in {t \in TreeInputs : t.git}
    /\ fs = [path \in StablePaths |-> NoFile]

SpecRegistry == InitRegistry /\ [][ApproveNext \/ CommitSteps("c1")]_vars

\* What a Phase 2 council that returned leaves in the store, and what the
\* store holds of the three kinds a commit may take its content from.
FinishedPhase2(task_type, kinds) ==
    [NoArtifacts EXCEPT
        !["packet"] = <<PlainText>>,
        !["draft"] = <<PlainText, PlainText>>,
        !["critique"] = <<PlainText, PlainText>>,
        !["synthesis"] = IF "synthesis" \in kinds
                         THEN <<ChairText(task_type, "envelope")>> ELSE <<>>,
        !["output"] = IF "output" \in kinds
                      THEN <<StripFences(ChairText(task_type, "envelope"))>> ELSE <<>>,
        !["synthesis_edited"] = IF "synthesis_edited" \in kinds
                                THEN <<NoDecisionText>> ELSE <<>>]

\* The ledger the single-artifact commits are called on: a plan run that
\* has been committed and a Phase 2 run of it.  The approval of Phase 2 runs is not part of
\* the sources at hand (the approve command of cli.py validates every run as
\* a plan run), so the row of the Phase 2 run is an input of the commit.
ArtifactLedger(task_type, status, kinds) ==
    /\ runs = <<[project |-> DefaultProject, task_type |-> "plan", status |-> "completed", parent |-> NoRun],
                [project |-> DefaultProject, task_type |-> task_type,
                 status |-> status, parent |-> 1]>>
    /\ artifacts = [r \in 1..MaxRuns |->
                       IF r = 1 THEN FinishedPlan(GoodText)
                       ELSE IF r = 2 THEN FinishedPhase2(task_type, kinds)
                       ELSE NoArtifacts]
    /\ approvals = [r \in 1..MaxRuns |->
                       IF r = 1 \/ (r = 2 /\ status = "ready_to_commit")
                       THEN <<[decision |-> "approve", feedback |-> NoFeedback]>> ELSE <<>>]
    /\ validated = IF status = "ready_to_commit" THEN {1, 2} ELSE {1}
    /\ issued = [r \in 1..MaxRuns |->
                    IF r <= 2 THEN [draft |-> 2, critique |-> 2, chair |-> 1]
                    ELSE ZeroCalls]

\* The target and the processes when a commit command is started on a clean,
\* empty work tree.
CleanTarget ==
    /\ council = IdleCouncil
    /\ outcome = NoEvent
    /\ cp = [p \in Committers |-> IdleCommit]
    /\ lockFile = FALSE
    /\ snaps = {}
    /\ clobbered = {}
    /\ registry_doc = RegistryFull
    /\ tree \in {t \in TreeInputs : t.git}
    /\ fs = [path \in StablePaths |-> NoFile]

\* What the store of a run handed to a commit holds.
StoredKinds == {{"synthesis", "output"}, {"synthesis", "output", "synthesis_edited"}}

\* One commit command at a time, of any variant, with the approval command.
InitArtifact ==
    /\ \E t \in Phase2Types, status \in {"waiting_for_approval", "ready_to_commit"},
          kinds \in StoredKinds : ArtifactLedger(t, status, kinds)
    /\ CleanTarget

ArtifactNext ==
    \/ \E r \in 1..MaxRuns : approve(r)
    \/ \E r \in 1..MaxRuns, text \in EditedTexts : edit(r, text)
    \/ \E r \in 0..MaxRuns : approve_refused(r)
    \/ CommitSteps("c1")
    \/ \E variant \in Variants, r \in 0..MaxRuns : commit_refused("c1", variant, r)

SpecArtifact == InitArtifact /\ [][ArtifactNext]_vars

\* Two commit commands at a time on a run that is ready to commit.
InitArtifactRace ==
    /\ \E t \in Phase2Types : ArtifactLedger(t, "ready_to_commit", {"synthesis", "output"})
    /\ CleanTarget

SpecArtifactRace == InitArtifactRace /\ [][CommitNext]_vars

\* What a Phase 2 run of the pack ledger is: approved or not, with or
\* without an output artifact.
PackRowInputs ==
    {[status |-> "ready_to_commit", output |-> TRUE],
     [status |-> "completed", output |-> TRUE],
     [status |-> "ready_to_commit", output |-> FALSE],
     [status |-> "waiting_for_approval", output |-> TRUE]}

\* The Phase 2 runs of the pack ledger, oldest first: one per pack type and
\* a second, newer spec run.
PackRowTypes == PACK_TASK_TYPES \o <<"spec">>

\* The plan run, the Phase 2 runs and room for the run commit_pack creates.
PackLedgerSize == 1 + Len(PackRowTypes) + 1

\* The ledger commit_pack is called on: an approved plan run and its
\* Phase 2 children.
PackLedgerOfSize(rows, size) ==
    LET n == 1 + Len(PackRowTypes)
    IN /\ runs = [r \in 1..n |->
                    IF r = 1
                    THEN [project |-> DefaultProject, task_type |-> "plan",
                          status |-> "ready_to_commit", parent |-> NoRun]
                    ELSE [project |-> DefaultProject, task_type |-> PackRowTypes[r - 1],
                          status |-> rows[r - 1].status, parent |-> 1]]
       /\ artifacts = [r \in 1..size |->
                         IF r = 1 THEN FinishedPlan(GoodText)
                         ELSE IF r <= n
                              THEN FinishedPhase2(PackRowTypes[r - 1],
                                      IF rows[r - 1].output THEN {"synthesis", "output"}
                                                            ELSE {"synthesis"})
                              ELSE NoArtifacts]
       /\ approvals = [r \in 1..size |->
                         IF r = 1 \/ (r <= n /\ rows[r - 1].status \in ApprovedStatuses)
                         THEN <<[decision |-> "approve", feedback |-> NoFeedback]>>
                         ELSE <<>>]
       /\ validated = {r \in 1..n : r = 1 \/ rows[r - 1].status \in ApprovedStatuses}
       /\ issued = [r \in 1..size |->
                      IF r <= n THEN [draft |-> 2, critique |-> 2, chair |-> 1]
                      ELSE ZeroCalls]

PackLedger(rows) == PackLedgerOfSize(rows, PackLedgerSize)

InitPack ==
    /\ \E rows \in [1..Len(PackRowTypes) -> PackRowInputs] : PackLedger(rows)
    /\ CleanTarget

\* commit_pack, one call at a time, on the plan run or on a run id the
\* ledger does not hold.
PackNext ==
    \/ \E r \in 0..1 : commit_begin("c1", "pack", r)
    \/ \E r \in 0..1 : commit_refused("c1", "pack", r)
    \/ CommitBody("c1")

SpecPack == InitPack /\ [][PackNext]_vars

\* Two calls of commit_pack at a time on a pack ledger whose Phase 2 runs
\* are all approved and hold an output.
InitPackRace ==
    /\ PackLedgerOfSize([i \in 1..Len(PackRowTypes) |->
                            [status |-> "ready_to_commit", output |-> TRUE]],
                        PackLedgerSize + 1)
    /\ CleanTarget

PackRaceNext ==
    \E p \in Committers :
        \/ commit_begin(p, "pack", 1)
        \/ CommitBody(p)

SpecPackRace == InitPackRace /\ [][PackRaceNext]_vars

\* The pack ledger before any tracker, prompts or cursor_rules run is
\* approved: the spec runs and the invariants run are approved or not, with
\* or without an output.
InitUpstream ==
    /\ \E rows \in [1..Len(PackRowTypes) -> PackRowInputs] :
          /\ \A i \in 1..Len(PackRowTypes) :
                PackRowTypes[i] \notin {"spec", "invariants"}
                   => rows[i] = [status |-> "waiting_for_approval", output |-> TRUE]
          /\ PackLedger(rows)
    /\ CleanTarget

\* The Phase 2 councils called on the plan run of that ledger, or on a run
\* id it does not hold, with any roster.
UpstreamNext ==
    \/ \E t \in Phase2Types, n \in 0..MaxModels : run_phase2_council(t, 1, n)
    \/ \E t \in Phase2Types, r \in 0..1, n \in 0..MaxModels :
          run_phase2_council_raises(t, r, n)
    \/ \E m \in Participants, ok \in BOOLEAN : _generate_phase2_draft(m, ok)
    \/ phase2_draft_gate
    \/ \E m \in Participants, ok \in BOOLEAN : _generate_phase2_critique(m, ok)
    \/ phase2_chair_call
    \/ \E answer \in ChairAnswers : phase2_chair_result(answer)

SpecUpstream == InitUpstream /\ [][UpstreamNext]_vars

----------------------------------------------------------------------------
(* Properties of the councils *)

Drafts(r) == Len(get_artifacts(artifacts, r, "draft"))

\* The draft calls of run r were submitted and all of them have come back.
DraftStageOver(r) ==
    /\ issued[r].draft > 0
    /\ ~(council.run = r /\ council.pc = "draft_wait")

\* C1: in a Phase 2 council, once the draft stage is over, two or more
\* successful drafts put the run in "critiquing" with the critique calls
\* issued; fewer than two leave it "failed" with the call ended by an
\* exception, no critique or chair call issued and no critique artifact.
C1_Phase2DraftGate ==
    /\ \A r \in RunIds :
          (runs[r].task_type \in Phase2Types /\ DraftStageOver(r)) =>
              IF Drafts(r) >= 2
              THEN /\ issued[r].critique > 0
                   /\ runs[r].status # "drafting"
                   /\ (council.run = r /\ council.pc = "critique_wait")
                         => runs[r].status = "critiquing"
              ELSE /\ runs[r].status = "failed"
                   /\ council.run # r
                   /\ issued[r].critique = 0
                   /\ issued[r].chair = 0
                   /\ get_artifacts(artifacts, r, "critique") = <<>>
    /\ (outcome.op \in Phase2Types /\ Drafts(outcome.run) < 2)
          => outcome.result = "raised"

\* A Phase 2 council has just raised at its draft gate with one draft stored.
C1_GateClosed ==
    /\ outcome.op \in Phase2Types
    /\ outcome.result = "raised"
    /\ Drafts(outcome.run) = 1
    /\ runs[outcome.run].status = "failed"
    /\ issued[outcome.run].draft = 2

\* C2: in the plan council, when fewer than two drafts succeed, no critique
\* call and no chair call is issued after the draft stage, and the run that
\* run_council returns is "failed".
C2_PlanDraftGate ==
    /\ \A r \in RunIds :
          (runs[r].task_type = "plan" /\ DraftStageOver(r) /\ Drafts(r) < 2) =>
              /\ issued[r].critique = 0
              /\ issued[r].chair = 0
    /\ (outcome.op = "run_council"
           /\ issued[outcome.run].draft > 0
           /\ Drafts(outcome.run) < 2)
          => runs[outcome.run].status = "failed"

\* C3: a run that is "failed" stays "failed" in every step, and a rejection
\* leaves the rejected run "failed" next to a new child run.
C3_FailedIsFinal ==
    [][ /\ \A r \in RunIds :
              runs[r].status = "failed" => runs'[r].status = "failed"
        /\ \A r \in RunIds :
              (Decisions(r)' = Append(Decisions(r), "reject")) =>
                  /\ runs'[r].status = "failed"
                  /\ Len(runs') = Len(runs) + 1
                  /\ runs'[Len(runs')].parent = r ]_vars

----------------------------------------------------------------------------
(* Properties of the commit engine *)

StatusOrder ==
    <<"created", "drafting", "critiquing", "synthesizing", "waiting_for_approval",
      "ready_to_commit", "committing", "completed">>

Rank(status) == CHOOSE i \in 1..Len(StatusOrder) : StatusOrder[i] = status

\* C4: no step moves a run's status backwards in the order created <
\* drafting < critiquing < synthesizing < waiting_for_approval <
\* ready_to_commit < committing < completed.
C4_StatusMonotone ==
    [][ \A r \in RunIds :
           (InSeq(runs[r].status, StatusOrder) /\ InSeq(runs'[r].status, StatusOrder))
              => Rank(runs'[r].status) >= Rank(runs[r].status) ]_vars

ContentSources == {"stub", "output", "synthesis_edited", "synthesis"}

\* Every file holding run content, in the stable tree or in a snapshot.
Published ==
    {fs[path] : path \in {q \in StablePaths : fs[q].src \in ContentSources}}
        \cup {s.file : s \in {t \in snaps : t.file.src \in ContentSources}}

Approved(r) ==
    \E i \in 1..Len(approvals[r]) :
        approvals[r][i].decision \in {"approve", "edit_approve"}

\* C5: every file a commit wrote holds content of a run that has an approval
\* "approve" or "edit_approve", passed validate_run_outputs and is neither
\* waiting for approval, failed nor validation_failed.
C5_OnlyApprovedPublished ==
    \A file \in Published :
        /\ file.run \in RunIds
        /\ Approved(file.run)
        /\ file.run \in validated
        /\ runs[file.run].status \in {"ready_to_commit", "committing", "completed"}

\* A commit has written the stub of an approved run to a stable path.
C5_StubPublished ==
    \E path \in StablePaths : fs[path].src = "stub" /\ Approved(fs[path].run)

\* C6: at most one commit attempt is between its lock acquisition and its
\* release.
C6_OneLockHolder ==
    Cardinality({p \in Committers : cp[p].pc \in WriteSteps}) <= 1

\* C7: an attempt invoked while one of its destinations exists changes no
\* file, no snapshot, no run status and not the lock marker, never gets past
\* its checks, and ends by raising.
C7_ExistingDestinationRejected ==
    [][ \A p \in Committers :
           ("dest_existed" \in cp[p].info /\ cp'[p] # cp[p]) =>
               /\ fs' = fs
               /\ snaps' = snaps
               /\ runs' = runs
               /\ lockFile' = lockFile
               /\ cp'[p].pc \in PreLockSteps \cup {"idle"}
               /\ cp'[p].pc # "lock_test"
               /\ cp'[p].pc = "idle" => outcome'.result = "raised" ]_vars

\* An attempt invoked on a tree holding one of its destinations was just
\* refused by the additive-only test.
C7_Refused ==
    /\ outcome.op = "commit"
    /\ "dest_existed" \in outcome.info
    /\ outcome.result = "raised"
    /\ outcome.reason = "overwrite"
    /\ ~lockFile

\* C8: no commit writes a destination that exists at the moment of the write.
C8_NoOverwrite == clobbered = {}

\* C9: an attempt started while the lock marker existed ends at once with
\* the lock-contention error, and once all attempts have ended no marker is
\* left.
C9_LockContention ==
    /\ (outcome.op = "commit" /\ "started_locked" \in outcome.info)
          => (outcome.result = "raised" /\ outcome.reason = "lock_contention")
    /\ (\A p \in Committers : cp[p].pc = "idle") => ~lockFile

\* C10: when an attempt that acquired the lock ends, by its manifest or by an
\* exception of the write phase, the lock marker does not exist; a marker
\* exists only while an attempt that acquired it is still running.
C10_LockReleased ==
    /\ (outcome.op = "commit" /\ "acquired" \in outcome.info) => ~lockFile
    /\ lockFile => \E p \in Committers : "acquired" \in cp[p].info

\* An attempt that held the lock has just ended by a write-phase exception.
C10_RaisedAfterAcquire ==
    /\ outcome.op = "commit"
    /\ "acquired" \in outcome.info
    /\ outcome.result = "raised"
    /\ outcome.reason = "write_phase"

\* The reasons with which a commit precondition refuses the call.
PreconditionReasons == {"non_git", "dirty", "forbidden", "not_allowed", "overwrite"}

\* C11: while an attempt runs its precondition checks it writes no stable
\* file and no snapshot, and the step in which a precondition refuses the
\* call leaves the target as it was before the call: no file, no snapshot
\* and no directory, the target directory included, has been created.
C11_RefusalLeavesTargetUntouched ==
    [][ \A p \in Committers :
           (cp[p].pc \in PreLockSteps /\ cp'[p] # cp[p]) =>
               /\ fs' = fs
               /\ snaps' = snaps
               /\ (cp'[p].pc = "idle" /\ outcome'.reason \in PreconditionReasons)
                     => tree' = tree ]_vars

----------------------------------------------------------------------------
(* Properties of the registry *)

\* Every path the commits have created below the target, relative to it.
CreatedPaths ==
    {path \in StablePaths : fs[path].src \notin {"none", "pre"}}
        \cup {SnapshotPath(s.path) : s \in snaps}

\* C12: every path a commit created in the target, stable file, snapshot
\* copy or manifest file, is allowed by the loaded registry (canonical or
\* matching a generated pattern) and not forbidden by it.
C12_CreatedPathsAllowed ==
    LET registry == parse_artifact_registry(registry_doc)
    IN \A path \in CreatedPaths :
           /\ is_allowed(registry, path)
           /\ ~is_forbidden(registry, path)

\* The checks that precede the path check and may refuse the call first.
EarlierRefusals == {"registry", "non_git", "dirty"}

\* C13: an attempt with a destination that the loaded registry lists as
\* forbidden and also allows never gets past the path check, so it writes
\* nothing, and it ends by raising the forbidden-path error (unless an
\* earlier check has refused it).  The per-path loop of the other variants
\* gives the forbidden verdict for such a path and never accepts a list that
\* holds one.
C13_ForbiddenWins ==
    /\ \A p \in Committers :
          "forbidden_dest" \in cp[p].info => cp[p].pc \in {"prepare", "dirty", "paths"}
    /\ (outcome.op = "commit" /\ "forbidden_dest" \in outcome.info) =>
          /\ outcome.result = "raised"
          /\ outcome.reason \in {"forbidden"} \cup EarlierRefusals
    /\ LET registry == parse_artifact_registry(registry_doc)
       IN \A variant \in Variants \ {"plan"} :
             LET paths == paths_to_write(variant, Destinations(variant))
             IN \A path \in SeqToSet(paths) :
                   (is_forbidden(registry, path) /\ is_allowed(registry, path)) =>
                       /\ PathVerdict(registry, <<path>>) = "forbidden"
                       /\ PathVerdict(registry, paths) # "ok"

\* An attempt with a canonical and forbidden destination has just been
\* refused with the forbidden-path error, the target still empty.
C13_ForbiddenRefused ==
    /\ outcome.op = "commit"
    /\ "forbidden_dest" \in outcome.info
    /\ outcome.reason = "forbidden"
    /\ CreatedPaths = {}

\* C14: a registry document that is absent, unreadable or without canonical
\* entries is parsed to the built-in table with source "fallback"; any other
\* document is parsed to its own lists with source "file" and no error; and
\* while the fallback table is the loaded one, no commit has written a path
\* that table lists as forbidden.
C14_RegistryFallback ==
    LET registry == parse_artifact_registry(registry_doc)
        unusable == \/ ~registry_doc.present
                    \/ ~registry_doc.readable
                    \/ registry_doc.canonical = <<>>
    IN /\ unusable =>
             /\ registry.source = "fallback"
             /\ registry.canonical = _FALLBACK_CANONICAL
             /\ registry.generated = _FALLBACK_GENERATED
             /\ registry.forbidden = _FALLBACK_FORBIDDEN
             /\ \A path \in _FALLBACK_FORBIDDEN :
                   /\ fs[path] = NoFile
                   /\ \A s \in snaps : s.path # path
       /\ ~unusable =>
             /\ registry.source = "file"
             /\ ~registry.error
             /\ registry.canonical = registry_doc.canonical
             /\ registry.generated = registry_doc.generated
             /\ registry.forbidden = registry_doc.forbidden

\* A commit has just been attempted with a registry file that has no
\* canonical entries, and was refused on the fallback table.
C14_CommitOnFallback ==
    /\ registry_doc.present
    /\ registry_doc.readable
    /\ parse_artifact_registry(registry_doc).source = "fallback"
    /\ outcome.op = "commit"
    /\ outcome.result = "raised"
    /\ outcome.reason = "registry"

----------------------------------------------------------------------------
(* Properties of the Phase 2 chair gate and of the approval *)

Stored(r, kind) == get_artifacts(artifacts, r, kind)

\* The error artifacts of run r that a failed chair gate wrote.
GateErrors(r) ==
    {i \in 1..Len(Stored(r, "error")) : "raw_output" \in DOMAIN Stored(r, "error")[i]}

\* A Phase 2 council has just ended on its chair's answer, by a failed gate
\* or by its return.
GateFailed == outcome.op \in Phase2Types /\ outcome.reason = "chair_gate"
GatePassed == outcome.op \in Phase2Types /\ outcome.result = "returned"

\* The part of C15 that does not depend on what the error artifact carries:
\* 'output' exists iff 'synthesis' exists, and then the run is past the
\* gate with the chair's raw text as synthesis and the cleaned text as
\* output; a failed gate leaves one gate error, status "failed", a raised
\* call and neither artifact; a passed gate leaves both artifacts and
\* status "waiting_for_approval"; the gate passes exactly the texts that
\* satisfy the task type's envelope.
ChairGateLaw ==
    /\ \A r \in RunIds :
          runs[r].task_type \in Phase2Types =>
              /\ (Stored(r, "output") # <<>>) <=> (Stored(r, "synthesis") # <<>>)
              /\ Stored(r, "output") # <<>> =>
                    /\ Len(Stored(r, "output")) = 1
                    /\ Len(Stored(r, "synthesis")) = 1
                    /\ Stored(r, "output")[1] = StripFences(Stored(r, "synthesis")[1])
                    /\ EnvelopeKeys[runs[r].task_type] \subseteq Stored(r, "output")[1].keys
                    /\ GateErrors(r) = {}
                    /\ runs[r].status \notin
                          {"created", "drafting", "critiquing", "synthesizing", "failed"}
              /\ Cardinality(GateErrors(r)) <= 1
              /\ GateErrors(r) # {} => runs[r].status = "failed"
    /\ GateFailed =>
          /\ outcome.result = "raised"
          /\ runs[outcome.run].status = "failed"
          /\ Cardinality(GateErrors(outcome.run)) = 1
          /\ Stored(outcome.run, "synthesis") = <<>>
          /\ Stored(outcome.run, "output") = <<>>
          /\ ~(EnvelopeKeys[outcome.op] \subseteq outcome.text.keys)
    /\ GatePassed =>
          /\ runs[outcome.run].status = "waiting_for_approval"
          /\ Stored(outcome.run, "synthesis") = <<outcome.text>>
          /\ Stored(outcome.run, "output") = <<StripFences(outcome.text)>>
          /\ EnvelopeKeys[outcome.op] \subseteq outcome.text.keys
    /\ \A t \in Phase2Types :
          /\ envelope_gate(t, StripFences(ChairText(t, "envelope")))
          /\ ~envelope_gate(t, StripFences(ChairText(t, "incomplete")))

\* What the error artifact of the gate that has just failed carries.
CarriedText ==
    LET errors == Stored(outcome.run, "error")
    IN errors[Len(errors)].raw_output

C16_ApprovedPhase2RunReady ==
    [][ \A r \in RunIds :
           ( /\ runs[r].task_type \in Phase2Types
             /\ runs[r].status = "waiting_for_approval"
             /\ Stored(r, "output") # <<>>
             /\ Decisions(r)' = Append(Decisions(r), "approve") )
              => runs'[r].status = "ready_to_commit" ]_vars

----------------------------------------------------------------------------
(* Properties of the dependency law *)

\* C17: a running Phase 2 council has passed every upstream input whose
\* content it hands to its participants through validate_allowed_inputs, and
\* each of these inputs is in the allow-set of its task type.
C17_UpstreamInputsValidated ==
    council.task \in Phase2Types =>
        /\ council.upstream \subseteq council.checked
        /\ council.upstream \subseteq ALLOWED_INPUTS_BY_TASK_TYPE[council.task]

\* The names of a call that are outside the allow-set of its task type or
\* contain a global or task-specific forbidden pattern.
Offending(task_type, inputs) ==
    {name \in SeqToSet(inputs) :
        \/ name \notin ALLOWED_INPUTS_BY_TASK_TYPE[task_type]
        \/ \E pattern \in FORBIDDEN_INPUT_PATTERNS \cup TASK_SPECIFIC_FORBIDDEN[task_type] :
              PatternIn(pattern, name)}

Validated == outcome.op = "validate_allowed_inputs"

\* C18: validate_allowed_inputs(T, I) raises iff some name of I is outside
\* T's allow-set or contains a global or T-specific forbidden pattern; it
\* returns when I is empty and when every name of I is in T's allow-set.
C18_RaisesIffOffending ==
    Validated =>
        /\ (outcome.result = "raised") <=> (Offending(outcome.task, outcome.inputs) # {})
        /\ outcome.inputs = <<>> => outcome.result = "returned"
        /\ SeqToSet(outcome.inputs) \subseteq ALLOWED_INPUTS_BY_TASK_TYPE[outcome.task]
              => outcome.result = "returned"

\* A call with an allowed name and a name outside the allow-set that holds
\* no forbidden pattern has just raised.
C18_NotAllowedRaised ==
    /\ Validated
    /\ outcome.task = "invariants"
    /\ outcome.inputs = <<SPEC, TRACKER>>
    /\ outcome.result = "raised"

\* C19: when validate_allowed_inputs raises, its error lists exactly one
\* entry for every offending name, none for any other name, and the count it
\* reports is the number of offending names.
C19_AllViolationsListed ==
    (Validated /\ outcome.result = "raised") =>
        LET offending == Offending(outcome.task, outcome.inputs)
        IN /\ outcome.count = Cardinality(offending)
           /\ Len(outcome.listed) = outcome.count
           /\ \A name \in offending :
                 Cardinality({i \in 1..Len(outcome.listed) :
                                 outcome.listed[i].name = name}) = 1
           /\ \A i \in 1..Len(outcome.listed) : outcome.listed[i].name \in offending

\* A call with two offending names, the first of them forbidden, has just
\* raised.
C19_TwoViolations ==
    /\ Validated
    /\ outcome.result = "raised"
    /\ Len(outcome.inputs) = 2
    /\ outcome.count = 2
    /\ outcome.listed[1].tag = "FORBIDDEN"

----------------------------------------------------------------------------
(* Properties of the critique stage *)

\* C20: once the draft gate has passed, a critique that comes back, failed
\* or not, changes no status and issues no call: a failure only appends an
\* error artifact, a success only a critique artifact.  When all critiques
\* are back the council goes on to the chair however many of them failed:
\* the next steps set the status "synthesizing" and issue the chair call.
C20_CritiqueFailuresIgnored ==
    [][ \A r \in RunIds :
           (council.run = r /\ Len(Stored(r, "draft")) >= 2) =>
               /\ (council.pc = "critique_wait" /\ council'.pc = "critique_wait") =>
                     /\ runs' = runs
                     /\ issued' = issued
                     /\ \E kind \in {"critique", "error"} :
                           artifacts' = write_artifact(artifacts, r, kind, PlainText)
               /\ (council.pc = "critique_wait" /\ council'.pc # "critique_wait") =>
                     /\ council'.run = r
                     /\ council'.pc \in {"chair_synthesize", "chair_wait"}
                     /\ artifacts' = artifacts
                     /\ runs'[r].status \in {"critiquing", "synthesizing"}
               /\ (council.pc \in {"critique_wait", "chair_synthesize"}
                      /\ council'.pc = "chair_wait") =>
                     /\ runs'[r].status = "synthesizing"
                     /\ issued'[r].chair = issued[r].chair + 1 ]_vars

\* The chair has been called for a run that passed the draft gate and whose
\* critiques all failed.
C20_ChairCalledWithoutCritiques ==
    /\ council.pc = "chair_wait"
    /\ Len(Stored(council.run, "draft")) >= 2
    /\ Stored(council.run, "critique") = <<>>
    /\ issued[council.run].critique >= 2
    /\ issued[council.run].chair = 1
    /\ runs[council.run].status = "synthesizing"

----------------------------------------------------------------------------
(* Properties of the fan-out stages *)

\* The participant calls of run r that have resolved: each wrote a draft, a
\* critique or an error artifact (a chair that raises writes an error too,
\* after its call).
Resolved(r) ==
    Len(Stored(r, "draft")) + Len(Stored(r, "critique")) + Len(Stored(r, "error"))

\* C21: in every council, the step that issues the critique calls of a run
\* finds every draft call of the run resolved, its draft or error artifact
\* written, and the step that issues the chair call finds every critique
\* call resolved as well, in whatever order the participants came back.
C21_StagesJoin ==
    [][ \A r \in RunIds :
           /\ issued'[r].critique > issued[r].critique =>
                 /\ issued[r].critique = 0
                 /\ council.pending = {}
                 /\ Stored(r, "critique") = <<>>
                 /\ Resolved(r) = issued[r].draft
                 /\ artifacts' = artifacts
           /\ issued'[r].chair > issued[r].chair =>
                 /\ issued[r].chair = 0
                 /\ council.pending = {}
                 /\ Resolved(r) = issued[r].draft + issued[r].critique
                 /\ artifacts' = artifacts ]_vars

\* The critique calls of a run have just been issued, after a draft call of
\* the run failed and wrote its error artifact.
C21_CritiquesAfterFailedDraft ==
    /\ council.pc = "critique_wait"
    /\ council.pending = council.models
    /\ issued[council.run].critique = issued[council.run].draft
    /\ Len(Stored(council.run, "error")) = 1
    /\ Len(Stored(council.run, "draft")) = issued[council.run].draft - 1

\* The kind of artifact a successful participant writes in the stage the
\* council is in.
StageKind == IF council.pc = "draft_wait" THEN "draft" ELSE "critique"

NoDuplicates(s) == Cardinality(SeqToSet(s)) = Len(s)

\* C22: while a stage waits for its participants, every participant of the
\* stage is either pending or has written exactly one artifact, so at the
\* join the successes and errors of the stage add up to the number of
\* participants.  The step in which participant m resolves, in whatever
\* order, writes exactly one artifact: a draft (critique) and the failed
\* list is unchanged, or an error and the failed list holds what it held
\* and m; the list never holds a participant twice.  A council that returns
\* hands back that list.
C22_OneArtifactPerParticipant ==
    [][ /\ council.pc \in {"draft_wait", "critique_wait"} =>
              /\ Resolved(council.run) + Cardinality(council.pending)
                    = issued[council.run].draft + issued[council.run].critique
              /\ NoDuplicates(council.failed)
              /\ SeqToSet(council.failed) \subseteq council.models
              /\ council.pc = "draft_wait" =>
                    /\ SeqToSet(council.failed) \cap council.pending = {}
                    /\ Len(council.failed) = Len(Stored(council.run, "error"))
                    /\ council.draft_ids = Len(Stored(council.run, "draft"))
        /\ (council.pc \in {"draft_wait", "critique_wait"}
               /\ council'.pc = council.pc
               /\ council' # council) =>
              \E m \in council.pending :
                  /\ council'.pending = council.pending \ {m}
                  /\ \/ /\ artifacts' = write_artifact(artifacts, council.run,
                                                       StageKind, PlainText)
                        /\ council'.failed = council.failed
                     \/ /\ artifacts' = write_artifact(artifacts, council.run,
                                                       "error", PlainText)
                        /\ SeqToSet(council'.failed) = SeqToSet(council.failed) \cup {m}
                        /\ NoDuplicates(council'.failed)
        /\ (council.pc \notin {"idle", "draft_wait", "critique_wait"}
               /\ council'.pc # "idle") =>
              council'.failed = council.failed
        /\ (council.pc # "idle" /\ outcome'.result = "returned") =>
              outcome'.failed = council.failed ]_vars

\* A council has just returned a run in which one participant failed its
\* critique: one critique, one error, that participant in the returned list.
C22_ReturnedWithFailedCritique ==
    /\ outcome.op \in Phase2Types \cup {"run_council"}
    /\ outcome.result = "returned"
    /\ Len(outcome.failed) = 1
    /\ Len(Stored(outcome.run, "draft")) = issued[outcome.run].draft
    /\ Len(Stored(outcome.run, "critique")) = issued[outcome.run].critique - 1
    /\ Len(Stored(outcome.run, "error")) = 1

----------------------------------------------------------------------------
(* Properties of the preflight *)

PreflightReasons ==
    {"too_few_models", "plan_not_found", "plan_not_approved", "no_plan_artifact",
     "no_approved_upstream", "no_upstream_output", "dependency_violation"}

\* C23: a council that starts has a roster of two or more participants and,
\* for a Phase 2 council, an approved plan run; a call that a preflight test
\* refuses leaves the run ledger and the artifact store as they were.
C23_PreflightRejects ==
    [][ /\ (council.pc = "idle" /\ council'.pc # "idle") =>
              /\ Cardinality(council'.models) >= 2
              /\ council'.task \in Phase2Types =>
                    /\ runs'[council'.run].parent \in RunIds
                    /\ runs[runs'[council'.run].parent].status \in ApprovedStatuses
        /\ (outcome'.result = "raised" /\ outcome'.reason \in PreflightReasons) =>
              /\ runs' = runs
              /\ artifacts' = artifacts ]_vars

----------------------------------------------------------------------------
(* Properties of the run checks of approval and commit *)

RunRefusals ==
    {"run_not_found", "not_waiting", "no_synthesis", "not_ready", "wrong_task_type"}

----------------------------------------------------------------------------
(* Properties of --reject *)

Rejected(r) == Decisions(r)' = Append(Decisions(r), "reject")

LastApproval(r) == approvals'[r][Len(approvals'[r])]

----------------------------------------------------------------------------
(* Properties of the write phase of the single-artifact commits *)

\* Everything the try block writes before it sets the run "completed".
AllWritten(p) ==
    LET c == cp[p]
    IN /\ \A i \in 1..Len(c.paths) :
             /\ Exists(fs, c.paths[i])
             /\ \E s \in snaps : s.ts = c.ts /\ s.run = c.target /\ s.path = c.paths[i]
       /\ \A name \in {"COMMIT_MANIFEST.md", "manifest.json"} :
             \E s \in snaps : s.ts = c.ts /\ s.run = c.target /\ s.path = name
       /\ Stored(c.target, "commit_log") # <<>>

----------------------------------------------------------------------------
(* Properties of the content selection of the commits *)

AuthoritativeChain == <<"output", "synthesis_edited", "synthesis">>

----------------------------------------------------------------------------
(* Properties of commit_pack *)

\* The most recent run of the type under the plan run that is approved.
LatestApproved(task_type, plan, r) ==
    LET hit(q) == /\ runs[q].task_type = task_type
                  /\ runs[q].parent = plan
                  /\ runs[q].status \in {"ready_to_commit", "completed"}
    IN /\ r \in RunIds
       /\ hit(r)
       /\ \A q \in RunIds : q > r => ~hit(q)

TypeReady(task_type, plan) ==
    \E r \in RunIds : LatestApproved(task_type, plan, r) /\ Stored(r, "output") # <<>>

PackTypes == {"spec", "tracker", "prompts", "cursor_rules", "invariants"}

----------------------------------------------------------------------------
(* Properties of the manifest *)

\* The commit of p returns its manifest in this step.
Returns(p) ==
    /\ cp[p].pc \in {"release_test", "release_unlink"}
    /\ cp'[p].pc = "idle"
    /\ outcome'.result = "returned"

Sha256(file) == [sha256 |-> file]

----------------------------------------------------------------------------
(* Properties of the artifact store *)

IsPrefix(s, t) == Len(s) <= Len(t) /\ SubSeq(t, 1, Len(s)) = s

----------------------------------------------------------------------------
(* Properties of the upstream lookups of the Phase 2 councils *)

UpstreamReasons == {"no_approved_upstream", "no_upstream_output"}

----------------------------------------------------------------------------
(* Properties of the content validators *)

\* The fenced YAML and JSON blocks of a content.
FencedBlocks(content) ==
    {i \in 1..Len(content) :
        /\ content[i].kind = "block"
        /\ content[i].lang \in {"yaml", "YAML", "yml", "json", "JSON"}}

\* A content carries a section label: a line in heading form at one of the
\* six levels, or in colon, bold or line-start form, names it in any case.
HasLabel(content, upper, other) ==
    \E i \in 1..Len(content) :
        /\ content[i].kind = "label"
        /\ content[i].name \in {upper, other}
        /\ content[i].form # "inline"
        /\ content[i].form = "heading" => content[i].level <= 6

NonBlank(content) == \E i \in 1..Len(content) : content[i].kind # "blank"

\* C33: validate_content_standalone accepts a synthesis iff it is not blank,
\* has a SYNTHESIS and a DECISION_PACKET section label and every fenced YAML
\* and JSON block of it parses; it accepts a decision packet iff it is not
\* blank, every such block parses and every block that parses to a mapping
\* has the keys decisions and next_actions; it rejects every other type.
C33_GateAcceptsExactly ==
    outcome.op = "validate_content_standalone" =>
        LET content == outcome.content
            accepted == outcome.result = "valid"
        IN  /\ outcome.content_type = "synthesis" =>
                 (accepted <=>
                    /\ NonBlank(content)
                    /\ HasLabel(content, "SYNTHESIS", "synthesis")
                    /\ HasLabel(content, "DECISION_PACKET", "Decision_Packet")
                    /\ \A i \in FencedBlocks(content) : content[i].parses)
            /\ outcome.content_type = "decision_packet" =>
                 (accepted <=>
                    /\ NonBlank(content)
                    /\ \A i \in FencedBlocks(content) :
                          /\ content[i].parses
                          /\ content[i].mapping =>
                                {"decisions", "next_actions"} \subseteq content[i].keys)
            /\ outcome.content_type \notin {"synthesis", "decision_packet"} => ~accepted

\* A synthesis whose labels are written in lower case and at the sixth
\* heading level, with a YAML block that parses, was accepted.
C33_AcceptedLowerCaseSynthesis ==
    /\ outcome.op = "validate_content_standalone"
    /\ outcome.content_type = "synthesis"
    /\ outcome.result = "valid"
    /\ \E i \in 1..Len(outcome.content) : outcome.content[i].name = "synthesis"
    /\ \E i \in 1..Len(outcome.content) : outcome.content[i].name = "Decision_Packet"
    /\ FencedBlocks(outcome.content) # {}

\* Every defect of a stored synthesis: each required section it lacks and a
\* fenced block that does not parse.
SynthesisDefects(content) ==
    {<<"Missing required sections", s>> : s \in REQUIRED_SYNTHESIS_SECTIONS \ content.labels}
    \cup (IF content.fenced = "bad" THEN {<<"parse error", "">>} ELSE {})

\* C34: the details validate_run_outputs returns name every defect of the
\* stored synthesis, not only the first check that failed.
C34_EveryDefectItemized ==
    (outcome.op = "validate_run_outputs" /\ Stored(outcome.run, "synthesis") # <<>>)
        => SynthesisDefects(Stored(outcome.run, "synthesis")[1])
              \subseteq outcome.details.synthesis

----------------------------------------------------------------------------
(* Properties of the envelope gates of the prompts and cursor_rules councils *)

\* The keys a chair output maps to something under outputs.
KeysPresent(chair_output) ==
    {k \in DOMAIN chair_output.outputs : chair_output.outputs[k] # "absent"}

----------------------------------------------------------------------------
(* Properties of the lock marker *)

\* C36: a commit attempt that ends on lock contention leaves the marker in
\* place, and a step that removes the marker is the release of an attempt
\* that acquired the lock.
C36_FailedAcquireLeavesMarker ==
    [][ /\ (outcome'.op = "commit" /\ outcome'.reason = "lock_contention")
              => (lockFile /\ lockFile')
        /\ (lockFile /\ ~lockFile')
              => \E p \in Committers :
                    /\ "acquired" \in cp[p].info
                    /\ cp[p].pc = "release_unlink"
                    /\ cp'[p].pc = "idle" ]_vars

\* An attempt has just ended on lock contention while the attempt that
\* holds the lock is still at work, and the marker is in place.
C36_ContentionWhileHeld ==
    /\ outcome.op = "commit"
    /\ outcome.reason = "lock_contention"
    /\ lockFile
    /\ \E q \in Committers : "acquired" \in cp[q].info /\ cp[q].pc # "idle"

----------------------------------------------------------------------------
(* Properties of the status "committing" *)

----------------------------------------------------------------------------
(* Properties of the run a whole-pack commit creates *)

----------------------------------------------------------------------------
(* Properties of the edit action *)

\* C39: a commit of a plan run whose latest approval is an edit publishes
\* the text of the artifact that validate_run_outputs checked, and that
\* text passes _validate_synthesis_content.
C39_PublishedTextWasValidated ==
    \A p \in Committers :
        ( /\ cp[p].pc # "idle"
          /\ cp[p].variant = "plan"
          /\ approvals[cp[p].run] # <<>>
          /\ approvals[cp[p].run][Len(approvals[cp[p].run])].decision = "edit_approve" )
           => /\ Stored(cp[p].run, cp[p].content_kind)
                    = Stored(cp[p].run, "synthesis")
              /\ _validate_synthesis_content(
                    Stored(cp[p].run, cp[p].content_kind)[1])

----------------------------------------------------------------------------
(* Termination of the councils *)

FinalStatuses == {"waiting_for_approval", "failed"}

====
